---- MODULE Spec2Model ----
(***************************************************************************)
(* Model of the Memory Lifecycle Worker, the Memory Store Operations and   *)
(* the Agent Completion Loop of the teacher-app repository.                *)
(*                                                                         *)
(* The module holds several specifications over one set of variables:      *)
(*   Spec        the in-process memory-job queue and its drain loop        *)
(*               (workers/thread-update-worker.ts)                         *)
(*   SpecMem     the memory store operations (models/memory.ts)            *)
(*   SpecExpire  expireMemories between its find and its write, with the   *)
(*               citations and deletions of other tasks in between         *)
(*   SpecAgent   Agent.createResponse (core/agent.ts) with the wrapped     *)
(*               capabilities of tools/index.ts; SpecAgentLive adds that   *)
(*               every await settles                                       *)
(*   SpecStream  the scan of the final structured stream                   *)
(*               (core/agent.ts, lines 246-304)                            *)
(*   SpecExtract, SpecOverLimit, SpecInterleaved                           *)
(*               extractMemories on the store, await by await              *)
(*   SpecStore   every write to the Memory collection, in any order        *)
(*   SpecTools   the wrapped capabilities of one turn (tools/index.ts)     *)
(*   SpecChat    POST /api/chat with the createResponse it starts          *)
(*   SpecExpireCall  expireMemories as a call with its return value        *)
(*   SpecLive    Spec with every await of the worker settling              *)
(*   SpecPublisher   the throttled stream publisher (lib/ably.ts)          *)
(* Each specification leaves the variables of the other parts unchanged.   *)
(***************************************************************************)
EXTENDS Integers, Sequences, FiniteSets, TLC

(***************************************************************************)
(* Bounds of the model.                                                    *)
(***************************************************************************)
MaxJobs == 3        \* calls of queueMemoryExtraction in one run
MaxOutputs == 2     \* output items of one model call of the worker
MaxMem == 2         \* memory documents ever created
MaxTime == 2        \* the clock, in days, runs from 1 to MaxTime
MaxAccess == 1      \* recordMemoryAccess is not applied beyond this count
MaxCfg == 1         \* largest maxMemories / minAccessCount of a drawn config
MaxToolCalls == 2   \* tool calls of one batch of createResponse

Threads == {"t1", "t2"}

Min(a, b) == IF a <= b THEN a ELSE b

VARIABLES
  \* ---- worker queue (thread-update-worker.ts) ----
  queue,          \* const queue: Job[]
  processing,     \* let processing
  drain,          \* the invocations of processQueue, one per enqueue call
  enqueued,       \* number of queueMemoryExtraction calls so far
  outcome,        \* per job: none, queued, running, returned, threw
  queuedAtThrow   \* jobs that were waiting in the queue when a job threw

qvars == <<queue, processing, drain, enqueued, outcome, queuedAtThrow>>

VARIABLES
  \* ---- memory store (models/memory.ts) ----
  memories,       \* the Memory collection; a document's _id is its index
  now,            \* the clock (new Date()), in days
  exp,            \* the expireMemories invocation between its find and its write
  lastOp          \* the last store operation and its arguments

mvars == <<memories, now, exp, lastOp>>

VARIABLES
  \* ---- Agent.createResponse (core/agent.ts) ----
  cr              \* one invocation: its locals, its position, what it sent

avars == <<cr>>

VARIABLES
  \* ---- the final structured stream (core/agent.ts, lines 246-304) ----
  stream,            \* the payload, how much of it was delivered, the position
  structuredContent, \* let structuredContent
  inResponseField,   \* let inResponseField
  responseBuffer,    \* let responseBuffer
  streamedLength,    \* let streamedLength
  published,         \* the text deltas given to publishStreamText, joined
  parsed             \* responseText and referencedMemoryIds after the parse

svars == <<stream, structuredContent, inResponseField, responseBuffer,
           streamedLength, published, parsed>>

VARIABLES
  \* ---- extractMemories on the store (thread-update-worker.ts) ----
  ex              \* the job in flight: its locals and the await it is at

rvars == <<ex>>

VARIABLES
  \* ---- the wrapped capabilities of one turn (tools/index.ts) ----
  inv,            \* the invocations of wrapTool's execute
  toolRows,       \* the ToolCall collection
  toolEvents      \* tool:start and tool:complete events published

tvars == <<inv, toolRows, toolEvents>>

VARIABLES
  \* ---- POST /api/chat (app/api/chat/route.ts) ----
  route,          \* the request: the await it is at, its answer
  turns,          \* the Message collection of the request's thread
  history         \* threadMessages as createResponse loaded them

cvars == <<route, turns, history>>

VARIABLES
  \* ---- expireMemories as a call (models/memory.ts) ----
  em              \* the call: its arguments, its toExpire list, its return value

xvars == <<em>>

VARIABLES
  \* ---- createThrottledStreamPublisher (lib/ably.ts) ----
  tp              \* one publisher: its closure variables, the clock, the channel

pvars == <<tp>>

vars == <<qvars, mvars, avars, svars, rvars, tvars, cvars, xvars, pvars>>

(***************************************************************************)
(* Worker queue: queue, processing, processQueue, queueMemoryExtraction.   *)
(***************************************************************************)
JobIds == 1..MaxJobs

NoDrain == [pc |-> "none", job |-> 0, phase |-> "-", items |-> 0,
            threw |-> FALSE, sawFlag |-> FALSE]

InitQueue ==
  /\ queue = <<>>
  /\ processing = FALSE
  /\ drain = [d \in JobIds |-> NoDrain]
  /\ enqueued = 0
  /\ outcome = [j \in JobIds |-> "none"]
  /\ queuedAtThrow = {}

\* processQueue, line 234: if (processing) return;
ProcessQueueGuard_Missing(flag) == FALSE
ProcessQueueGuard(flag) == flag

\* processQueue, lines 239-243: try { await extractMemories(...) } catch { log }
JobErrorCaught_Uncaught == FALSE
JobErrorCaught == TRUE

\* extractMemories runs synchronously up to its first await, the Promise.all
\* of line 68: the job is in flight in phase "load".
StartJob(d, job, flag) ==
  [pc |-> "running", job |-> job.id, phase |-> "load", items |-> 0,
   threw |-> FALSE, sawFlag |-> flag]

\* const job = queue.shift()!, line 238: the first job and the rest.
shift_Last(q) == [job |-> q[Len(q)], rest |-> SubSeq(q, 1, Len(q) - 1)]
shift(q) == [job |-> Head(q), rest |-> Tail(q)]

\* queueMemoryExtraction: push, then processQueue() up to its first await.
queueMemoryExtraction(t) ==
  /\ enqueued < MaxJobs
  /\ LET n == enqueued + 1
         q1 == Append(queue, [id |-> n, threadId |-> t])
     IN /\ enqueued' = n
        /\ IF ProcessQueueGuard(processing)
           THEN /\ queue' = q1
                /\ drain' = [drain EXCEPT ![n].pc = "returned"]
                /\ outcome' = [outcome EXCEPT ![n] = "queued"]
                /\ UNCHANGED processing
           ELSE /\ processing' = TRUE
                /\ queue' = shift(q1).rest
                /\ drain' = [drain EXCEPT
                               ![n] = StartJob(n, shift(q1).job, processing)]
                /\ outcome' = [[outcome EXCEPT ![n] = "queued"]
                                 EXCEPT ![shift(q1).job.id] = "running"]
  /\ UNCHANGED queuedAtThrow

Running(d) == drain[d].pc = "running"

\* The job's promise settles: extractMemories returned or threw.
Settle(d, threw) ==
  /\ drain' = [drain EXCEPT ![d].pc = "settled", ![d].threw = threw,
                            ![d].phase = "-", ![d].items = 0]
  /\ outcome' = [outcome EXCEPT ![drain[d].job] =
                    IF threw THEN "threw" ELSE "returned"]
  /\ queuedAtThrow' = IF threw
                      THEN queuedAtThrow \cup {queue[i].id : i \in 1..Len(queue)}
                      ELSE queuedAtThrow
  /\ UNCHANGED <<queue, processing, enqueued>>

Advance(d, phase, items) ==
  /\ drain' = [drain EXCEPT ![d].phase = phase, ![d].items = items]
  /\ UNCHANGED <<queue, processing, enqueued, outcome, queuedAtThrow>>

\* extractMemories, lines 68-77: the three loads; no messages -> return.
JobLoad(d) ==
  /\ Running(d) /\ drain[d].phase = "load"
  /\ \/ Settle(d, TRUE)                    \* a load rejects
     \/ Settle(d, FALSE)                   \* recentMessages.length === 0
     \/ Advance(d, "toolcalls", 0)         \* an assistant turn with a messageId
     \/ Advance(d, "model", 0)

\* extractMemories, lines 86-101: await getMessageToolCalls(msg.messageId)
JobToolCalls(d) ==
  /\ Running(d) /\ drain[d].phase = "toolcalls"
  /\ \/ Settle(d, TRUE)
     \/ Advance(d, "model", 0)

\* extractMemories, lines 126-133: the model call; empty output -> return.
JobModelCall(d) ==
  /\ Running(d) /\ drain[d].phase = "model"
  /\ \/ Settle(d, TRUE)
     \/ Settle(d, FALSE)                   \* outputMemories.length === 0
     \/ \E n \in 1..MaxOutputs : Advance(d, "reconcile", n)

\* extractMemories, lines 139-208: one awaited store write of the current
\* output item (an unchanged single-source item awaits nothing).
JobReconcile(d) ==
  /\ Running(d) /\ drain[d].phase = "reconcile"
  /\ \/ Settle(d, TRUE)
     \/ /\ drain[d].items > 1
        /\ Advance(d, "reconcile", drain[d].items - 1)
     \/ /\ drain[d].items = 1
        /\ \/ Advance(d, "remove", 0)      \* removedIds.length > 0
           \/ Advance(d, "expire", 0)

\* extractMemories, lines 211-218: await softDeleteMemories(removedIds)
JobRemove(d) ==
  /\ Running(d) /\ drain[d].phase = "remove"
  /\ \/ Settle(d, TRUE)
     \/ Advance(d, "expire", 0)

\* extractMemories, line 221: await expireMemories(userId)
JobExpire(d) ==
  /\ Running(d) /\ drain[d].phase = "expire"
  /\ \/ Settle(d, TRUE)
     \/ Advance(d, "notify", 0)

\* extractMemories, lines 226-230: a failed notification is caught.
JobNotify(d) ==
  /\ Running(d) /\ drain[d].phase = "notify"
  /\ Settle(d, FALSE)

\* while (queue.length > 0), line 237: the loop is left on an empty queue.
LoopExits_AfterOneJob(q) == TRUE
LoopExits(q) == q = <<>>

\* processQueue, lines 237-246: the continuation after the awaited job.
processQueue(d) ==
  /\ drain[d].pc = "settled"
  /\ IF drain[d].threw /\ ~JobErrorCaught
     THEN /\ drain' = [drain EXCEPT ![d].pc = "crashed"]
          /\ UNCHANGED <<queue, processing, outcome>>
     ELSE IF LoopExits(queue)
          THEN /\ processing' = FALSE
               /\ drain' = [drain EXCEPT ![d].pc = "done", ![d].job = 0]
               /\ UNCHANGED <<queue, outcome>>
          ELSE /\ queue' = shift(queue).rest
               /\ drain' = [drain EXCEPT
                              ![d] = StartJob(d, shift(queue).job, drain[d].sawFlag)]
               /\ outcome' = [outcome EXCEPT ![shift(queue).job.id] = "running"]
               /\ UNCHANGED processing
  /\ UNCHANGED <<enqueued, queuedAtThrow>>

NextQueue ==
  \/ \E t \in Threads : queueMemoryExtraction(t)
  \/ \E d \in JobIds : JobLoad(d)
  \/ \E d \in JobIds : JobToolCalls(d)
  \/ \E d \in JobIds : JobModelCall(d)
  \/ \E d \in JobIds : JobReconcile(d)
  \/ \E d \in JobIds : JobRemove(d)
  \/ \E d \in JobIds : JobExpire(d)
  \/ \E d \in JobIds : JobNotify(d)
  \/ \E d \in JobIds : processQueue(d)

(***************************************************************************)
(* Memory store: models/memory.ts.  Times are whole days; NULL is the null  *)
(* date.                                                                    *)
(***************************************************************************)
MemIds == 1..MaxMem
NULL == 0

\* memorySchema, lines 15-26, with the defaults of a created document.
NewMemory(u, t) ==
  [userId |-> u, content |-> "c0", accessCount |-> 0, lastAccessedAt |-> NULL,
   deletedAt |-> NULL, consolidatedFromIds |-> {}, createdAt |-> t]

Known(store) == DOMAIN store

\* findActiveMemories({ userId }), line 33, in the store's natural (_id) order.
findActiveMemories(store, u) ==
  SelectSeq([i \in 1..Len(store) |-> i],
            LAMBDA i : store[i].userId = u /\ store[i].deletedAt = NULL)

ActiveIds(store, u) ==
  {i \in Known(store) : store[i].userId = u /\ store[i].deletedAt = NULL}

\* softDeleteMemories, lines 37-43: updateMany({_id: {$in}}, {$set: {deletedAt}})
softDeleteFilter_ActiveOnly(store, i) == store[i].deletedAt = NULL
softDeleteFilter(store, i) == TRUE

softDeleteMemories(store, ids, t) ==
  IF ids = {} THEN store
  ELSE [i \in Known(store) |->
          IF i \in ids /\ softDeleteFilter(store, i)
          THEN [store[i] EXCEPT !.deletedAt = t]
          ELSE store[i]]

\* recordMemoryAccess, lines 45-55: the filter { _id: {$in}, deletedAt: null }
recordAccessFilter_AnyState(store, i) == TRUE
recordAccessFilter(store, i) == store[i].deletedAt = NULL

recordMemoryAccess(store, ids, t) ==
  IF ids = {} THEN store
  ELSE [i \in Known(store) |->
          IF i \in ids /\ recordAccessFilter(store, i)
          THEN [store[i] EXCEPT !.accessCount = @ + 1, !.lastAccessedAt = t]
          ELSE store[i]]

\* ExpireMemoriesConfig, lines 57-66, drawn from small values.
Configs ==
  [maxMemories : 0..MaxCfg, minAgeDays : 0..1, minAccessCount : 1..MaxCfg,
   staleAfterDays : 0..1]

\* expireMemories, lines 125-128: accessCount - ageDays * 0.1, times ten.
scoreMemory_AgeOnly(m, t) == 0 - (t - m.createdAt)
scoreMemory(m, t) == 10 * m.accessCount - (t - m.createdAt)

\* Array.prototype.sort by ascending score: stable insertion of x into a
\* sorted sequence of ids.
RECURSIVE InsertByScore(_, _, _, _)
InsertByScore(s, x, store, t) ==
  IF s = <<>> THEN <<x>>
  ELSE IF scoreMemory(store[x], t) < scoreMemory(store[Head(s)], t)
       THEN <<x>> \o s
       ELSE <<Head(s)>> \o InsertByScore(Tail(s), x, store, t)

RECURSIVE SortByScore(_, _, _)
SortByScore(s, store, t) ==
  IF s = <<>> THEN <<>>
  ELSE InsertByScore(SortByScore(SubSeq(s, 1, Len(s) - 1), store, t),
                     s[Len(s)], store, t)

Range(s) == {s[i] : i \in 1..Len(s)}
Take(s, n) == SubSeq(s, 1, Min(n, Len(s)))

\* expireMemories, lines 117-122: the stale candidates.
staleCandidates(act, store, cfg, t) ==
  SelectSeq(act, LAMBDA i :
    /\ store[i].createdAt < t - cfg.minAgeDays
    /\ store[i].accessCount < cfg.minAccessCount
    /\ (store[i].lastAccessedAt = NULL
          \/ store[i].lastAccessedAt < t - cfg.staleAfterDays))

\* expireMemories, line 109
excessCount_OffByOne(n, maxMemories) == n - maxMemories + 1
excessCount(n, maxMemories) == n - maxMemories

\* expireMemories, lines 99-147: the ids to expire, from what the find saw.
toExpire(store, u, cfg, t) ==
  LET act == findActiveMemories(store, u)
  IN IF Len(act) <= cfg.maxMemories THEN <<>>
     ELSE LET excess == excessCount(Len(act), cfg.maxMemories)
              first == Take(SortByScore(staleCandidates(act, store, cfg, t),
                                        store, t), excess)
              remaining == SortByScore(
                             SelectSeq(act, LAMBDA i : i \notin Range(first)),
                             store, t)
          IN IF Len(first) < excess
             THEN first \o Take(remaining, excess - Len(first))
             ELSE first

NoExp == [pc |-> "idle", userId |-> "u1", loaded |-> {}, ids |-> {},
          floor |-> 0, now |-> NULL]

InitMem ==
  /\ memories = <<>>
  /\ now = 1
  /\ exp = NoExp
  /\ lastOp = [op |-> "none", ids |-> {}]

\* Memory.create, thread-update-worker.ts line 145.  Only the worker creates
\* memories, and the worker is the caller of expireMemories: nothing is
\* created while an expiration is between its find and its write.
MemCreate(u) ==
  /\ Len(memories) < MaxMem
  /\ exp.pc = "idle"
  /\ memories' = Append(memories, NewMemory(u, now))
  /\ UNCHANGED <<now, exp>>

\* A day passes (not within one expireMemories call).
Tick ==
  /\ now < MaxTime
  /\ exp.pc = "idle"
  /\ now' = now + 1
  /\ UNCHANGED <<memories, exp>>

\* A call of softDeleteMemories: by the worker (thread-update-worker.ts lines
\* 205 and 217) or by the DELETE route after its findOne (init/route.ts line 63).
SoftDelete(ids) ==
  /\ memories' = softDeleteMemories(memories, ids, now)
  /\ UNCHANGED <<now, exp>>

\* DELETE /api/memories (init/route.ts lines 57-63): findOne of an active
\* memory of the session's user, then softDeleteMemories([memoryId]).
DeleteRoute(i) ==
  /\ i \in Known(memories)
  /\ memories[i].deletedAt = NULL
  /\ SoftDelete({i})

\* A call of recordMemoryAccess (agent.ts line 316).
RecordAccess(ids) ==
  /\ \A i \in ids \cap Known(memories) : memories[i].accessCount < MaxAccess
  /\ memories' = recordMemoryAccess(memories, ids, now)
  /\ UNCHANGED <<now, exp>>

\* expireMemories, lines 99-151: the find and the choice of toExpire; it
\* returns at once when there is nothing to expire.
ExpireLoad(u, cfg) ==
  /\ exp.pc = "idle"
  /\ LET ids == Range(toExpire(memories, u, cfg, now))
         act == ActiveIds(memories, u)
     IN exp' = IF ids = {} THEN NoExp
               ELSE [pc |-> "write", userId |-> u, loaded |-> act, ids |-> ids,
                     floor |-> Min(Cardinality(act), cfg.maxMemories),
                     now |-> now]
  /\ UNCHANGED <<memories, now>>

\* expireMemories, lines 153-156: updateMany({_id: {$in: toExpire}}, deletedAt: now)
ExpireWrite ==
  /\ exp.pc = "write"
  /\ memories' = [i \in Known(memories) |->
                    IF i \in exp.ids THEN [memories[i] EXCEPT !.deletedAt = exp.now]
                    ELSE memories[i]]
  /\ exp' = NoExp
  /\ UNCHANGED now

\* The store operations called with any id list, as the worker, the loop and
\* the DELETE route call them.
NextMem ==
  \/ MemCreate("u1") /\ lastOp' = [op |-> "create", ids |-> {}]
  \/ Tick /\ lastOp' = [op |-> "tick", ids |-> {}]
  \/ \E ids \in SUBSET MemIds :
       SoftDelete(ids) /\ lastOp' = [op |-> "softDelete", ids |-> ids]
  \/ \E ids \in SUBSET MemIds :
       RecordAccess(ids) /\ lastOp' = [op |-> "recordAccess", ids |-> ids]

Other == [op |-> "other", ids |-> {}]

\* expireMemories interleaved with the operations of the other tasks: the
\* loop's citations and the user's deletions.
NextExpire ==
  \/ MemCreate("u1") /\ lastOp' = Other
  \/ Tick /\ lastOp' = Other
  \/ \E i \in MemIds : DeleteRoute(i) /\ lastOp' = Other
  \/ \E i \in MemIds : RecordAccess({i}) /\ lastOp' = Other
  \/ \E cfg \in Configs :
       /\ ExpireLoad("u1", cfg)
       /\ lastOp' = [op |-> "expireLoad", ids |-> exp'.ids, userId |-> "u1",
                     maxMemories |-> cfg.maxMemories]
  \/ ExpireWrite /\ lastOp' = [op |-> "expireWrite", ids |-> exp.ids]

(***************************************************************************)
(* Agent.createResponse: core/agent.ts lines 72-347, with the wrapped       *)
(* capabilities of tools/index.ts.  cr holds the locals of one invocation   *)
(* and what it has sent out; cr.pc names the await the invocation is at.    *)
(***************************************************************************)
maxPasses == 10

\* The ids a structured output can name: the ids of the stored memories and
\* one id that is no active memory's id.
AgentIds == 1..(MaxMem + 1)

\* What findActiveMemories can return to an invocation: no memory, or the
\* first k of the stored ones (the loop treats all ids alike).
ActiveSets == {1..k : k \in 0..MaxMem}

\* Values of the response field, and raw texts that JSON.parse rejects.
Texts == {"", " ", "hi"}
RawTexts == {"", "{\"response\":\"hi"}

\* responseText.trim(), line 324, on the texts above.
Trim(t) == IF t \in {"", " "} THEN "" ELSE t

\* ResponseSchema, lines 112-120: z.enum(memoryIds) when there are memory
\* ids, z.string() otherwise.
ResponseSchema_Unconstrained(ids) ==
  [response : Texts, memoriesReferenced : SUBSET AgentIds]
ResponseSchema(ids) ==
  [response : Texts,
   memoriesReferenced : SUBSET (IF ids # {} THEN ids ELSE AgentIds)]

\* What the model can ask for in one tool call: a registered tool with
\* arguments that pass its inputSchema, arguments that fail it, arguments
\* that are not JSON, or a name that is no tool.
ToolCallKinds == {"valid", "invalid input", "bad arguments", "unknown tool"}

\* wrapTool.execute, tools/index.ts lines 44-74: its awaits, in order.
WrapSteps_ExecuteFirst ==
  <<"execute", "startToolCall", "publishToolStart",
    "completeToolCall", "publishToolComplete">>
WrapSteps == <<"startToolCall", "publishToolStart", "execute",
               "completeToolCall", "publishToolComplete">>

\* agent.ts line 215: `Error: ${err.message}`, by the step that threw.
ErrorText(step) ==
  IF step = "execute" THEN "Error: execute failed" ELSE "Error: tool log failed"

ErrorTexts ==
  {"Error: execute failed", "Error: tool log failed", "Error: Invalid input",
   "Error: Unexpected token", "Error: Tool not found"}

Done(result) == [pc |-> "done", step |-> 0, result |-> result]

\* The callback of toolCalls.map, lines 203-222, up to its first await.
StartSlot(kind) ==
  IF kind = "unknown tool" THEN Done("Error: Tool not found")
  ELSE IF kind = "bad arguments" THEN Done("Error: Unexpected token")
  ELSE IF kind = "invalid input" THEN Done("Error: Invalid input")
  ELSE [pc |-> "await", step |-> 1, result |-> ""]

AssistantMessage(kinds) ==
  [role |-> "assistant", tool_call_id |-> 0, content |-> "", tool_calls |-> kinds]
ToolMessage(i, result) ==
  [role |-> "tool", tool_call_id |-> i, content |-> result, tool_calls |-> <<>>]

NoMessage == [created |-> FALSE, content |-> "", referencedMemories |-> {}]
NoComplete == [status |-> "none", text |-> "", memoriesUsed |-> {}]

InitAgent ==
  cr = [pc |-> "load", pass |-> 0, modelCalls |-> 0, finalCalls |-> 0,
        memoryIds |-> {}, toolCalls |-> <<>>, currentMessages |-> <<>>,
        structuredContent |-> [received |-> FALSE, json |-> FALSE, text |-> ""],
        responseText |-> "", referencedMemoryIds |-> {}, memoriesUsed |-> {},
        recorded |-> [called |-> FALSE, ids |-> {}],
        message |-> NoMessage, completeEvent |-> NoComplete,
        errorEvent |-> [status |-> "none", message |-> "none"],
        thrown |-> "none", raised |-> "none", log |-> <<>>]

\* The awaited calls of lines 289-335 that resolved, in the order in which
\* they did.
Logged(c, call) == [c EXCEPT !.log = Append(@, call)]

\* for (let pass = 1; pass <= maxPasses; pass++), line 147
LoopContinues_OffByOne(p) == p < maxPasses
LoopContinues(p) == p <= maxPasses

\* Lines 324-335 up to the next await: createMessage only for a text that
\* is not blank, then publishStreamComplete.
AfterCitations(c) ==
  IF Trim(c.responseText) # "" THEN [c EXCEPT !.pc = "persist"]
  ELSE [c EXCEPT !.pc = "complete"]

\* Lines 313-316 up to the next await: recordMemoryAccess is called with the
\* referenced ids when there are any.
AfterLoop(c) ==
  IF c.referencedMemoryIds # {}
  THEN [c EXCEPT !.pc = "record",
                 !.recorded = [called |-> TRUE, ids |-> c.referencedMemoryIds]]
  ELSE AfterCitations(c)

\* The loop head at pass p: the tool-enabled model call of lines 151-157 is
\* issued, or the loop is left.
EnterPass(c, p) ==
  IF LoopContinues(p)
  THEN [c EXCEPT !.pass = p, !.modelCalls = @ + 1, !.pc = "model"]
  ELSE AfterLoop([c EXCEPT !.pass = p])

\* An exception inside the try block, lines 337-343: publishStreamError is
\* called with the error's message.
Throw_Returns(e) ==
  cr' = [cr EXCEPT !.pc = "returned"]
Throw(e) ==
  cr' = [cr EXCEPT !.pc = "catch", !.thrown = e,
                   !.errorEvent = [status |-> "pending", message |-> e]]

\* Lines 80-92: the three loads; no user throws; an empty thread is an
\* initiation request, otherwise buildMessages is awaited.
LoadContextOf(acts, lens) ==
  /\ cr.pc = "load"
  /\ \/ Throw("load failed")
     \/ Throw("User not found")
     \/ \E act \in acts, n \in lens :
          cr' = IF n = 0
                THEN EnterPass([cr EXCEPT !.memoryIds = act], 1)
                ELSE [cr EXCEPT !.memoryIds = act, !.pc = "build"]

\* The loads of an invocation whose store and thread are left open: any of
\* the active sets, a thread with or without messages.
LoadContext == LoadContextOf(ActiveSets, 0..1)

\* buildMessages, lines 386-407: getMessageToolCalls per assistant turn.
BuildMessages ==
  /\ cr.pc = "build"
  /\ \/ Throw("getMessageToolCalls failed")
     \/ cr' = EnterPass(cr, 1)

\* Lines 151-244: the tool-enabled call and its stream.  With tool calls (or
\* finish_reason tool_calls) the assistant message is pushed and every tool
\* call is started; without, the final structured call is issued, after
\* which currentMessages is not read again.
ModelPass ==
  /\ cr.pc = "model"
  /\ \/ Throw("model call failed")
     \/ \E n \in 0..MaxToolCalls :
          \E kinds \in [1..n -> ToolCallKinds] :
            cr' = [cr EXCEPT !.pc = "tools",
                             !.currentMessages = <<AssistantMessage(kinds)>>,
                             !.toolCalls = [i \in 1..n |-> StartSlot(kinds[i])]]
     \/ cr' = [cr EXCEPT !.pc = "final", !.finalCalls = @ + 1,
                         !.currentMessages = <<>>]

\* Lines 209-217: try { ... await toolFn.execute(args) ... } catch (err)
ToolErrorCaught_Uncaught == FALSE
ToolErrorCaught == TRUE

\* One await of wrapTool.execute settles for tool call i: it resolves and
\* the wrapper goes on, or it rejects and the tool call's result is the
\* error text.
ToolStep(i) ==
  /\ cr.pc = "tools"
  /\ i \in DOMAIN cr.toolCalls
  /\ cr.toolCalls[i].pc = "await"
  /\ LET s == cr.toolCalls[i].step
     IN \/ /\ s < Len(WrapSteps)
           /\ cr' = [cr EXCEPT !.toolCalls[i].step = s + 1]
        \/ /\ s = Len(WrapSteps)
           /\ cr' = [cr EXCEPT !.toolCalls[i] = Done("output")]
        \/ IF ToolErrorCaught
           THEN cr' = [cr EXCEPT !.toolCalls[i] = Done(ErrorText(WrapSteps[s]))]
           ELSE Throw(WrapSteps[s])

\* await Promise.all(toolCalls.map(...)), lines 202-222: every callback has
\* returned its { tool_call_id, content }.
AllSettled_Any(calls) == calls = <<>> \/ \E i \in DOMAIN calls : calls[i].pc = "done"
AllSettled(calls) == \A i \in DOMAIN calls : calls[i].pc = "done"

\* Lines 202-233: Promise.all resolves, one role=tool message per tool call
\* is pushed, and the loop goes to its next pass.
ToolsJoin ==
  /\ cr.pc = "tools"
  /\ AllSettled(cr.toolCalls)
  /\ cr' = EnterPass(
             [cr EXCEPT !.currentMessages =
                           @ \o [i \in DOMAIN cr.toolCalls |->
                                   ToolMessage(i, cr.toolCalls[i].result)],
                        !.toolCalls = <<>>],
             cr.pass + 1)

\* Lines 295-303: JSON.parse accepts the buffered text (an output that
\* satisfies the schema) and both fields are taken from it.
ParseSuccess(c, out) ==
  AfterLoop([c EXCEPT
               !.structuredContent = [received |-> TRUE, json |-> TRUE, text |-> "{...}"],
               !.responseText = out.response,
               !.referencedMemoryIds = out.memoriesReferenced])

\* Lines 300-303: JSON.parse throws; catch (e) { responseText = structuredContent }
ParseFailure_Throws(c, raw) ==
  [c EXCEPT !.structuredContent = [received |-> TRUE, json |-> FALSE, text |-> raw],
            !.pc = "catch", !.thrown = "Unexpected token",
            !.errorEvent = [status |-> "pending", message |-> "Unexpected token"]]
ParseFailure(c, raw) ==
  AfterLoop([c EXCEPT
               !.structuredContent = [received |-> TRUE, json |-> FALSE, text |-> raw],
               !.responseText = raw])

\* Lines 267-291: publishStreamText is awaited for every non-empty slice of
\* the response value, inside the loop over the chunks.
PublishedDeltas(c, value) ==
  IF value # "" THEN Logged(c, "publishStreamText") ELSE c

\* Lines 239-305: the final structured call, its stream and the parse.  The
\* output satisfies ResponseSchema, or it is a text JSON.parse rejects.
FinalStream ==
  /\ cr.pc = "final"
  /\ \/ Throw("final call failed")
     \/ Throw("publishStreamText failed")
     \/ \E out \in ResponseSchema(cr.memoryIds) :
          cr' = ParseSuccess(PublishedDeltas(cr, out.response), out)
     \/ \E raw \in RawTexts :
          cr' = ParseFailure(PublishedDeltas(cr, raw), raw)

\* Line 316: await recordMemoryAccess(referencedMemoryIds)
RecordCitations ==
  /\ cr.pc = "record"
  /\ \/ Throw("recordMemoryAccess failed")
     \/ cr' = Logged([cr EXCEPT !.pc = "find"], "recordMemoryAccess")

\* Lines 317-321: Memory.find({_id: {$in}}) returns the stored documents
\* among the referenced ids, deleted or not; each is mapped to its id and
\* content.
memoriesUsed(ids, docs) ==
  {[id |-> i, content |-> docs[i].content] : i \in ids \cap DOMAIN docs}

FindReferencedIn(docs) ==
  /\ cr.pc = "find"
  /\ \/ Throw("Memory.find failed")
     \/ cr' = AfterCitations(
                [cr EXCEPT !.memoriesUsed =
                             memoriesUsed(cr.referencedMemoryIds, docs)])

FindReferenced == FindReferencedIn([i \in MemIds |-> NewMemory("u1", 1)])

\* Lines 325-332: createMessage
PersistTurn ==
  /\ cr.pc = "persist"
  /\ \/ Throw("createMessage failed")
     \/ cr' = Logged([cr EXCEPT !.pc = "complete",
                                !.message = [created |-> TRUE,
                                             content |-> cr.responseText,
                                             referencedMemories |-> cr.referencedMemoryIds]],
                     "createMessage")

\* Lines 335-336: publishStreamComplete, return responseText
PublishComplete ==
  /\ cr.pc = "complete"
  /\ \/ Throw("publishStreamComplete failed")
     \/ cr' = Logged([cr EXCEPT !.pc = "returned",
                                !.completeEvent = [status |-> "sent",
                                                   text |-> cr.responseText,
                                                   memoriesUsed |-> cr.memoriesUsed]],
                     "publishStreamComplete")

\* Lines 339-345: try { await publishStreamError } catch {} throw error
Rethrown_PublishErrorWins(error, publishFailed) ==
  IF publishFailed THEN "publishStreamError failed" ELSE error
Rethrown(error, publishFailed) == error

CatchPublish ==
  /\ cr.pc = "catch"
  /\ \E ok \in BOOLEAN :
       cr' = [cr EXCEPT !.pc = "threw",
                        !.errorEvent.status = IF ok THEN "sent" ELSE "failed",
                        !.raised = Rethrown(cr.thrown, ~ok)]

NextAgent ==
  \/ LoadContext
  \/ BuildMessages
  \/ ModelPass
  \/ \E i \in 1..MaxToolCalls : ToolStep(i)
  \/ ToolsJoin
  \/ FinalStream
  \/ RecordCitations
  \/ FindReferenced
  \/ PersistTurn
  \/ PublishComplete
  \/ CatchPublish

(***************************************************************************)
(* The final structured stream: core/agent.ts lines 246-304.  A text is a   *)
(* sequence of one-character strings.                                       *)
(***************************************************************************)
Q == "\""
BS == "\\"
NL == "\n"
NUL == "NUL"      \* the placeholder character \u0000 of line 285

\* The marker "response":" of line 258
Marker ==
  <<"\"", "r", "e", "s", "p", "o", "n", "s", "e", "\"", ":", "\"">>

ResponseKey ==
  <<"r", "e", "s", "p", "o", "n", "s", "e">>
MemoriesKey ==
  <<"m", "e", "m", "o", "r", "i", "e", "s", "R", "e", "f", "e", "r", "e",
    "n", "c", "e", "d">>

\* {"response":"Hello, world!","memoriesReferenced":["m1"]}
HelloPayload ==
  <<"{", "\"", "r", "e", "s", "p", "o", "n", "s", "e", "\"", ":", "\"",
    "H", "e", "l", "l", "o", ",", " ", "w", "o", "r", "l", "d", "!", "\"",
    ",", "\"", "m", "e", "m", "o", "r", "i", "e", "s", "R", "e", "f", "e",
    "r", "e", "n", "c", "e", "d", "\"", ":", "[", "\"", "m", "1", "\"",
    "]", "}">>
HelloText ==
  <<"H", "e", "l", "l", "o", ",", " ", "w", "o", "r", "l", "d", "!">>
M1 == <<"m", "1">>

\* {"memoriesReferenced":[],"response":"hi"}
ResponseLastPayload ==
  <<"{", "\"", "m", "e", "m", "o", "r", "i", "e", "s", "R", "e", "f", "e",
    "r", "e", "n", "c", "e", "d", "\"", ":", "[", "]", ",", "\"", "r", "e",
    "s", "p", "o", "n", "s", "e", "\"", ":", "\"", "h", "i", "\"", "}">>

\* {"response":"a\"b\\"}
EscapedPayload ==
  <<"{", "\"", "r", "e", "s", "p", "o", "n", "s", "e", "\"", ":", "\"",
    "a", "\\", "\"", "b", "\\", "\\", "\"", "}">>

\* {"response":"hi   (the text ends there)
CutPayload ==
  <<"{", "\"", "r", "e", "s", "p", "o", "n", "s", "e", "\"", ":", "\"",
    "h", "i">>

\* {"response":"a\"b\nc"}
QuotePayload ==
  <<"{", "\"", "r", "e", "s", "p", "o", "n", "s", "e", "\"", ":", "\"",
    "a", "\\", "\"", "b", "\\", "n", "c", "\"", "}">>

Payloads ==
  {HelloPayload, ResponseLastPayload, EscapedPayload, CutPayload, QuotePayload}

\* String.prototype.indexOf and slice, with the indices of the source.
IndexOf(s, pat) ==
  LET hits == {i \in 0..(Len(s) - Len(pat)) :
                 SubSeq(s, i + 1, i + Len(pat)) = pat}
  IN IF hits = {} THEN -1 ELSE CHOOSE i \in hits : \A j \in hits : i <= j

Slice(s, from) == SubSeq(s, from + 1, Len(s))

IsPrefix(s, t) == Len(s) <= Len(t) /\ s = SubSeq(t, 1, Len(s))

\* Lines 270-276: the first i >= streamedLength with responseBuffer[i] a
\* quote and responseBuffer[i - 1] not a backslash; -1 when there is none.
ClosingQuote(buf, from) ==
  LET hits == {i \in from..(Len(buf) - 1) :
                 buf[i + 1] = Q /\ (i = 0 \/ buf[i] # BS)}
  IN IF hits = {} THEN -1 ELSE CHOOSE i \in hits : \A j \in hits : i <= j

\* String.prototype.replace of a two-character pattern with the g flag.
RECURSIVE ReplacePair(_, _, _, _)
ReplacePair(s, a, b, r) ==
  IF Len(s) < 2 THEN s
  ELSE IF s[1] = a /\ s[2] = b
       THEN <<r>> \o ReplacePair(SubSeq(s, 3, Len(s)), a, b, r)
       ELSE <<s[1]>> \o ReplacePair(Tail(s), a, b, r)

ReplaceChar(s, a, r) == [i \in 1..Len(s) |-> IF s[i] = a THEN r ELSE s[i]]

\* Lines 284-288: the four chained replaces.
unescaped(toStream) ==
  ReplaceChar(
    ReplacePair(
      ReplacePair(ReplacePair(toStream, BS, BS, NUL), BS, "n", NL),
      BS, Q, Q),
    NUL, BS)

\* JSON.parse, line 297, on the texts of the final call: an object, without
\* white space, whose members are strings or arrays of strings.
Fail == [ok |-> FALSE, val |-> <<>>, next |-> 0]

RECURSIVE ParseChars(_, _, _)
ParseChars(s, i, acc) ==
  IF i > Len(s) THEN Fail
  ELSE IF s[i] = Q THEN [ok |-> TRUE, val |-> acc, next |-> i + 1]
  ELSE IF s[i] = BS
       THEN IF i + 1 <= Len(s) /\ s[i + 1] \in {Q, BS, "n", "/"}
            THEN ParseChars(s, i + 2,
                            Append(acc, IF s[i + 1] = "n" THEN NL ELSE s[i + 1]))
            ELSE Fail
  ELSE IF s[i] = NL THEN Fail
  ELSE ParseChars(s, i + 1, Append(acc, s[i]))

ParseString(s, i) ==
  IF i <= Len(s) /\ s[i] = Q THEN ParseChars(s, i + 1, <<>>) ELSE Fail

RECURSIVE ParseElements(_, _, _)
ParseElements(s, i, acc) ==
  LET e == ParseString(s, i)
  IN IF ~e.ok \/ e.next > Len(s) THEN Fail
     ELSE IF s[e.next] = ","
          THEN ParseElements(s, e.next + 1, Append(acc, e.val))
     ELSE IF s[e.next] = "]"
          THEN [ok |-> TRUE, val |-> Append(acc, e.val), next |-> e.next + 1]
     ELSE Fail

ParseArray(s, i) ==
  IF i + 1 <= Len(s) /\ s[i + 1] = "]"
  THEN [ok |-> TRUE, val |-> <<>>, next |-> i + 2]
  ELSE ParseElements(s, i + 1, <<>>)

ParseMemberValue(s, i) ==
  IF i > Len(s) THEN Fail
  ELSE IF s[i] = Q THEN ParseString(s, i)
  ELSE IF s[i] = "[" THEN ParseArray(s, i)
  ELSE Fail

NotJSON == [ok |-> FALSE, members |-> <<>>]

RECURSIVE ParseMembers(_, _, _)
ParseMembers(s, i, acc) ==
  LET k == ParseString(s, i)
  IN IF ~k.ok \/ k.next > Len(s) THEN NotJSON
     ELSE IF s[k.next] # ":" THEN NotJSON
     ELSE LET v == ParseMemberValue(s, k.next + 1)
              members == Append(acc, [key |-> k.val, val |-> v.val])
          IN IF ~v.ok \/ v.next > Len(s) THEN NotJSON
             ELSE IF s[v.next] = "," THEN ParseMembers(s, v.next + 1, members)
             ELSE IF s[v.next] = "}" /\ v.next = Len(s)
                  THEN [ok |-> TRUE, members |-> members]
             ELSE NotJSON

JSONparse(s) ==
  IF Len(s) < 2 \/ s[1] # "{" THEN NotJSON
  ELSE IF s[2] = "}"
       THEN IF Len(s) = 2 THEN [ok |-> TRUE, members |-> <<>>] ELSE NotJSON
  ELSE ParseMembers(s, 2, <<>>)

\* parsed.key || default, lines 298-299: the last member of that name.
Member(members, key, default) ==
  LET hits == {j \in 1..Len(members) : members[j].key = key}
  IN IF hits = {} THEN default
     ELSE members[CHOOSE j \in hits : \A h \in hits : h <= j].val

InitStream ==
  /\ stream = [pc |-> "idle", payload |-> <<>>, pos |-> 0, markerSplit |-> FALSE]
  /\ structuredContent = <<>>
  /\ inResponseField = FALSE
  /\ responseBuffer = <<>>
  /\ streamedLength = 0
  /\ published = <<>>
  /\ parsed = [ok |-> FALSE, responseText |-> <<>>, referencedMemoryIds |-> <<>>]

\* Lines 239-250: the final call returns its stream; the locals start empty.
StreamOpen(p) ==
  /\ stream.pc = "idle"
  /\ stream' = [pc |-> "open", payload |-> p, pos |-> 0, markerSplit |-> FALSE]
  /\ structuredContent' = <<>>
  /\ inResponseField' = FALSE
  /\ responseBuffer' = <<>>
  /\ streamedLength' = 0
  /\ UNCHANGED <<published, parsed>>

\* Line 258: the marker is looked for in the whole text received so far.
MarkerSearchText_DeltaOnly(content, delta) == delta
MarkerSearchText(content, delta) == content

\* A chunk boundary at position p of the payload falls inside the marker.
InsideMarker(payload, p) ==
  LET m == IndexOf(payload, Marker)
  IN m # -1 /\ m < p /\ p < m + Len(Marker)

\* Lines 252-293: one chunk of n characters goes through the loop body.
StreamChunk(n) ==
  /\ stream.pc = "open"
  /\ n \in 0..(Len(stream.payload) - stream.pos)
  /\ LET delta == SubSeq(stream.payload, stream.pos + 1, stream.pos + n)
         content == structuredContent \o delta
         responseStart == IndexOf(MarkerSearchText(content, delta), Marker)
         entered == ~inResponseField /\ responseStart # -1
         buffer == IF inResponseField THEN responseBuffer \o delta
                   ELSE IF entered THEN Slice(content, responseStart + 12)
                   ELSE responseBuffer
         inField == inResponseField \/ entered
         endIdx == ClosingQuote(buffer, streamedLength)
         toStream == IF endIdx = -1 THEN Slice(buffer, streamedLength)
                     ELSE SubSeq(buffer, streamedLength + 1, endIdx)
         emits == inField /\ Len(buffer) > streamedLength /\ Len(toStream) > 0
     IN /\ structuredContent' = content
        /\ inResponseField' = inField
        /\ responseBuffer' = buffer
        /\ streamedLength' = IF emits THEN streamedLength + Len(toStream)
                             ELSE streamedLength
        /\ published' = IF emits THEN published \o unescaped(toStream)
                        ELSE published
        /\ stream' = [stream EXCEPT
                        !.pos = @ + n,
                        !.markerSplit =
                           @ \/ InsideMarker(stream.payload, stream.pos + n)]
  /\ UNCHANGED parsed

\* Lines 296-304: the stream has ended; the whole text is parsed once, and
\* a text that does not parse is the response as it is.
StreamEnd ==
  /\ stream.pc = "open"
  /\ stream.pos = Len(stream.payload)
  /\ LET r == JSONparse(structuredContent)
     IN parsed' =
          IF r.ok
          THEN [ok |-> TRUE,
                responseText |-> Member(r.members, ResponseKey, <<>>),
                referencedMemoryIds |-> Member(r.members, MemoriesKey, <<>>)]
          ELSE [ok |-> FALSE, responseText |-> structuredContent,
                referencedMemoryIds |-> <<>>]
  /\ stream' = [stream EXCEPT !.pc = "ended"]
  /\ UNCHANGED <<structuredContent, inResponseField, responseBuffer,
                 streamedLength, published>>

NextStream ==
  \/ \E p \in Payloads : StreamOpen(p)
  \/ \E n \in 0..Len(stream.payload) : StreamChunk(n)
  \/ StreamEnd

(***************************************************************************)
(* extractMemories, workers/thread-update-worker.ts lines 64-231, on the    *)
(* memory store.  Jobs run one at a time (processQueue); ex holds the       *)
(* locals of the job in flight and ex.pc names the await it is at.  The     *)
(* store writes of a job take effect when the awaited call resolves; the    *)
(* loop's citations and the user's deletions happen in between.             *)
(***************************************************************************)
MaxDocs == 3        \* memory documents ever created, in the reconciliation runs
MaxRuns == 2        \* extraction jobs of one reconciliation run
MaxItems == 6       \* output items of one model call, in the over-limit runs

\* DEFAULT_EXPIRE_CONFIG, memory.ts lines 68-73
DEFAULT_EXPIRE_CONFIG ==
  [maxMemories |-> 5, minAgeDays |-> 30, minAccessCount |-> 2,
   staleAfterDays |-> 14]

\* The content strings of an output item.
Contents == {"c0", "c1"}

\* buildMemoryOutputSchema, lines 17-25: { content, sourceIds: string[] }.
\* The ids are any strings: ids of documents in the store, more than once too.
OutputItems(ids, len) ==
  [content : Contents, sourceIds : UNION {[1..n -> ids] : n \in 0..len}]

\* Memory.create({ threadId, userId, content, lessonPlanId }), line 145
CreatedMemory(u, content, t) == [NewMemory(u, t) EXCEPT !.content = content]

\* named is not a local of the job: it collects the ids of loaded memories
\* that the items read so far name in their sourceIds.
NoExtract ==
  [pc |-> "idle", ended |-> "none", runs |-> 0, userId |-> "u1",
   existing |-> {}, existingMap |-> <<>>, left |-> 0, named |-> {},
   processedIds |-> {}, sourceIds |-> <<>>, keepId |-> 0, deleteIds |-> {},
   toExpire |-> {}, expireNow |-> NULL, gotOutput |-> FALSE, expired |-> FALSE]

InitExtract == ex = NoExtract

\* Line 140: output.sourceIds.filter((id) => existingMap.has(id))
FilterSources(sourceIds, existingMap) ==
  SelectSeq(sourceIds, LAMBDA id : id \in DOMAIN existingMap)

\* Line 164: sourceMemories.reduce((sum, m) => sum + (m.accessCount || 0), 0)
RECURSIVE totalAccessCount(_, _)
totalAccessCount(sourceIds, existingMap) ==
  IF sourceIds = <<>> THEN 0
  ELSE existingMap[Head(sourceIds)].accessCount
         + totalAccessCount(Tail(sourceIds), existingMap)

\* Lines 167-170: the most recent lastAccessedAt that is not null, or null.
RECURSIVE mostRecentAccess(_, _)
mostRecentAccess(sourceIds, existingMap) ==
  IF sourceIds = <<>> THEN NULL
  ELSE LET rest == mostRecentAccess(Tail(sourceIds), existingMap)
           mine == existingMap[Head(sourceIds)].lastAccessedAt
       IN IF mine > rest THEN mine ELSE rest

\* Lines 173-182: the sources' ids and the ids they were consolidated from.
allOriginalIds(sourceIds, existingMap) ==
  Range(sourceIds)
    \cup UNION {existingMap[i].consolidatedFromIds : i \in Range(sourceIds)}

\* Lines 185-187: Array.prototype.sort by ascending createdAt, stable.
RECURSIVE InsertByCreated(_, _, _)
InsertByCreated(s, x, existingMap) ==
  IF s = <<>> THEN <<x>>
  ELSE IF existingMap[x].createdAt < existingMap[Head(s)].createdAt
       THEN <<x>> \o s
       ELSE <<Head(s)>> \o InsertByCreated(Tail(s), x, existingMap)

RECURSIVE SortByCreated(_, _)
SortByCreated(s, existingMap) ==
  IF s = <<>> THEN <<>>
  ELSE InsertByCreated(SortByCreated(SubSeq(s, 1, Len(s) - 1), existingMap),
                       s[Len(s)], existingMap)

\* Lines 188-189: keepId = sorted[0]._id, deleteIds = sorted.slice(1)
KeepId(sorted) == Head(sorted)

DeleteIds(sorted) == Range(Tail(sorted))

\* Lines 192 and 200: consolidatedFromIds of the kept memory
ConsolidatedFrom(sourceIds, existingMap, keepId) ==
  allOriginalIds(sourceIds, existingMap) \ {keepId}

\* Lines 196-202: Memory.findByIdAndUpdate(keepId, { content, accessCount,
\* lastAccessedAt, consolidatedFromIds, lessonPlanId })
ConsolidateUpdate_Replaces(store, keepId, item, sourceIds, existingMap) ==
  [store EXCEPT
     ![keepId] = [CreatedMemory(@.userId, item.content, @.createdAt) EXCEPT
        !.accessCount = totalAccessCount(sourceIds, existingMap),
        !.lastAccessedAt = mostRecentAccess(sourceIds, existingMap),
        !.consolidatedFromIds = ConsolidatedFrom(sourceIds, existingMap, keepId)]]
ConsolidateUpdate(store, keepId, item, sourceIds, existingMap) ==
  [store EXCEPT
     ![keepId] = [@ EXCEPT
        !.content = item.content,
        !.accessCount = totalAccessCount(sourceIds, existingMap),
        !.lastAccessedAt = mostRecentAccess(sourceIds, existingMap),
        !.consolidatedFromIds = ConsolidatedFrom(sourceIds, existingMap, keepId)]]

\* Lines 211-213: the loaded memories that no output item referenced.
RemovedIds(existing, processedIds) == existing \ processedIds

\* The job ends: extractMemories returned or threw.
Ended(e, how) ==
  [NoExtract EXCEPT !.ended = how, !.runs = e.runs,
                    !.gotOutput = e.gotOutput, !.expired = e.expired]

\* Lines 208-221 up to the next await: past the last item, softDeleteMemories
\* is awaited when removedIds is not empty, expireMemories otherwise.
NextItem(e) ==
  LET next == [e EXCEPT !.sourceIds = <<>>, !.keepId = 0, !.deleteIds = {}]
  IN IF e.left > 0 THEN [next EXCEPT !.pc = "loop"]
     ELSE IF RemovedIds(e.existing, e.processedIds) # {}
          THEN [next EXCEPT !.pc = "remove"]
          ELSE [next EXCEPT !.pc = "expire"]

\* processQueue calls extractMemories, which awaits the loads of line 68.
ExtractStart ==
  /\ ex.pc = "idle"
  /\ ex.runs < MaxRuns
  /\ ex' = [NoExtract EXCEPT !.pc = "load", !.runs = ex.runs + 1]
  /\ UNCHANGED <<memories, now>>

\* Lines 68-77: the loads resolve with the user's active memories; no
\* messages -> return.
ExtractLoad ==
  /\ ex.pc = "load"
  /\ LET act == ActiveIds(memories, ex.userId)
         loaded == [ex EXCEPT !.existing = act,
                              !.existingMap = [i \in act |-> memories[i]]]
     IN \/ ex' = Ended(ex, "threw")
        \/ ex' = Ended(loaded, "returned")      \* recentMessages.length === 0
        \/ ex' = [loaded EXCEPT !.pc = "model"]
  /\ UNCHANGED <<memories, now>>

\* Lines 126-137: the model call resolves with n output items; an empty
\* list -> return.
ExtractModel(n) ==
  /\ ex.pc = "model"
  /\ \/ ex' = Ended(ex, "threw")
     \/ /\ n = 0                               \* outputMemories.length === 0
        /\ ex' = Ended([ex EXCEPT !.gotOutput = TRUE], "returned")
     \/ /\ n > 0
        /\ ex' = [ex EXCEPT !.pc = "loop", !.left = n, !.gotOutput = TRUE]
  /\ UNCHANGED <<memories, now>>

\* Lines 139-207: the next output item and its first store write, which
\* resolves or rejects.  The items of the list are read one by one.  An item
\* with one source and nothing to change awaits nothing.
ReconcileItem(item, maxDocs) ==
  /\ ex.pc = "loop"
  /\ LET sourceIds == FilterSources(item.sourceIds, ex.existingMap)
         sorted == SortByCreated(sourceIds, ex.existingMap)
         read == [ex EXCEPT
                    !.named = @ \cup (Range(item.sourceIds) \cap ex.existing),
                    !.left = @ - 1]
     IN IF Len(sourceIds) = 0
        THEN /\ Len(memories) < maxDocs
             /\ \/ /\ memories' = Append(memories,
                                         CreatedMemory(ex.userId, item.content, now))
                   /\ ex' = NextItem(read)
                \/ /\ ex' = Ended(read, "threw")
                   /\ UNCHANGED memories
        ELSE IF Len(sourceIds) = 1
        THEN LET sourceId == sourceIds[1]
                 seen == [read EXCEPT !.processedIds = @ \cup {sourceId}]
             IN IF ex.existingMap[sourceId].content # item.content
                THEN \/ /\ memories' = [memories EXCEPT
                                          ![sourceId].content = item.content]
                        /\ ex' = NextItem(seen)
                     \/ /\ ex' = Ended(seen, "threw")
                        /\ UNCHANGED memories
                ELSE /\ ex' = NextItem(seen)
                     /\ UNCHANGED memories
        ELSE LET seen == [read EXCEPT !.processedIds = @ \cup Range(sourceIds),
                                      !.sourceIds = sourceIds,
                                      !.keepId = KeepId(sorted),
                                      !.deleteIds = DeleteIds(sorted)]
             IN \/ /\ memories' = ConsolidateUpdate(memories, KeepId(sorted), item,
                                                    sourceIds, ex.existingMap)
                   /\ ex' = [seen EXCEPT !.pc = "softDelete"]
                \/ /\ ex' = Ended(seen, "threw")
                   /\ UNCHANGED memories
  /\ UNCHANGED now

\* Lines 204-206: await softDeleteMemories(deleteIds)
ConsolidateDelete ==
  /\ ex.pc = "softDelete"
  /\ \/ /\ memories' = softDeleteMemories(memories, ex.deleteIds, now)
        /\ ex' = NextItem(ex)
     \/ /\ ex' = Ended(ex, "threw")
        /\ UNCHANGED memories
  /\ UNCHANGED now

\* Lines 215-218: await softDeleteMemories(removedIds)
RemoveUnreferenced ==
  /\ ex.pc = "remove"
  /\ \/ /\ memories' = softDeleteMemories(
                         memories, RemovedIds(ex.existing, ex.processedIds), now)
        /\ ex' = [ex EXCEPT !.pc = "expire"]
     \/ /\ ex' = Ended(ex, "threw")
        /\ UNCHANGED memories
  /\ UNCHANGED now

\* Line 221, memory.ts lines 99-151: expireMemories(userId) with the default
\* configuration; its find resolves and toExpire is chosen.
ExpireFind ==
  /\ ex.pc = "expire"
  /\ LET ids == Range(toExpire(memories, ex.userId, DEFAULT_EXPIRE_CONFIG, now))
     IN \/ ex' = Ended(ex, "threw")
        \/ /\ ids = {}
           /\ ex' = [ex EXCEPT !.pc = "notify", !.expired = TRUE]
        \/ /\ ids # {}
           /\ ex' = [ex EXCEPT !.pc = "expireWrite", !.toExpire = ids,
                               !.expireNow = now]
  /\ UNCHANGED <<memories, now>>

\* memory.ts lines 153-156: Memory.updateMany({_id: {$in: toExpire}}, ...)
ExpireUpdate ==
  /\ ex.pc = "expireWrite"
  /\ \/ /\ memories' = [i \in Known(memories) |->
                          IF i \in ex.toExpire
                          THEN [memories[i] EXCEPT !.deletedAt = ex.expireNow]
                          ELSE memories[i]]
        /\ ex' = [ex EXCEPT !.pc = "notify", !.expired = TRUE]
     \/ /\ ex' = Ended(ex, "threw")
        /\ UNCHANGED memories
  /\ UNCHANGED now

\* Lines 226-231: publishMemoryUpdate resolves or its failure is caught.
NotifyClients ==
  /\ ex.pc = "notify"
  /\ ex' = Ended(ex, "returned")
  /\ UNCHANGED <<memories, now>>

\* A day passes (not within one job).
DayPasses ==
  /\ now < MaxTime
  /\ ex.pc = "idle"
  /\ now' = now + 1
  /\ UNCHANGED <<memories, ex>>

\* The other tasks between two awaits of the job: the loop records a
\* citation (agent.ts line 316), the user deletes a memory (init/route.ts
\* lines 57-63).
Cite(i) ==
  /\ i \in Known(memories)
  /\ memories[i].accessCount < MaxAccess
  /\ memories' = recordMemoryAccess(memories, {i}, now)
  /\ UNCHANGED <<now, ex>>

UserDelete(i) ==
  /\ i \in Known(memories)
  /\ memories[i].deletedAt = NULL
  /\ memories' = softDeleteMemories(memories, {i}, now)
  /\ UNCHANGED <<now, ex>>

\* Jobs on a store of at most MaxDocs documents, with citations, deletions
\* and days between jobs.  MaxDocs stays below maxMemories, so expireMemories
\* finds nothing to expire here and its updateMany is not a step of this
\* specification (it is one of NextOverLimit).
NextExtract ==
  \/ ExtractStart
  \/ ExtractLoad
  \/ \E n \in 0..MaxOutputs : ExtractModel(n)
  \/ \E item \in OutputItems(1..MaxDocs, MaxDocs) : ReconcileItem(item, MaxDocs)
  \/ ConsolidateDelete
  \/ RemoveUnreferenced
  \/ ExpireFind
  \/ NotifyClients
  \/ DayPasses
  \/ \E i \in 1..MaxDocs : ex.pc = "idle" /\ Cite(i)
  \/ \E i \in 1..MaxDocs : ex.pc = "idle" /\ UserDelete(i)

\* The same jobs with the loop's citations (agent.ts line 316) and the
\* user's deletions arriving while a job is at one of its awaits as well:
\* the request that queues a job starts its createResponse right after.
NextInterleaved ==
  \/ NextExtract
  \/ \E i \in 1..MaxDocs : ex.pc # "idle" /\ Cite(i)
  \/ \E i \in 1..MaxDocs : ex.pc # "idle" /\ UserDelete(i)

\* Jobs whose model returns up to MaxItems new memories, with no other task
\* at work.
NextOverLimit ==
  \/ ExtractStart
  \/ ExtractLoad
  \/ \E n \in 0..MaxItems : ExtractModel(n)
  \/ \E item \in OutputItems({}, 0) : ReconcileItem(item, MaxItems)
  \/ RemoveUnreferenced
  \/ ExpireFind
  \/ ExpireUpdate
  \/ NotifyClients

(***************************************************************************)
(* The wrapped capabilities of one turn: tools/index.ts lines 24-79 with    *)
(* startToolCall and completeToolCall of models/tool-call.ts.  All the      *)
(* invocations carry the turn's messageId.  inv[i] is the i-th invocation   *)
(* of wrapTool's execute, toolRows the ToolCall collection, toolEvents what *)
(* was published on the turn's channel.                                     *)
(***************************************************************************)
ToolNames == {"getLessonPlan", "generateRandomNumber"}

Invocations == 1..MaxToolCalls

\* registry.ts lines 55-58: the fields of a tool's inputSchema.
InputFields == {"min", "max"}

NoError == [message |-> "none", fields |-> {}]

NoInvocation ==
  [pc |-> "none", step |-> 0, toolName |-> "", row |-> 0, began |-> FALSE,
   returned |-> FALSE, wrote |-> FALSE, issues |-> {}, error |-> NoError]

\* Lines 34-41: safeParse reports one issue per field that fails the
\* schema; the error joins "path: message" of every issue.
InvalidInput_FirstIssue(issues) ==
  [message |-> "Invalid input",
   fields |-> {CHOOSE f \in issues : TRUE}]
InvalidInput(issues) == [message |-> "Invalid input", fields |-> issues]

InitTools ==
  /\ inv = [i \in Invocations |-> NoInvocation]
  /\ toolRows = <<>>
  /\ toolEvents = <<>>

\* The wrapper awaits WrapSteps[s]; tool.execute is called in the same
\* synchronous run in which the await before it resolved (line 58).
AwaitStep(v, s) ==
  [v EXCEPT !.pc = "await", !.step = s,
            !.began = @ \/ WrapSteps[s] = "execute"]

\* Lines 29-50: the wrapper is called; an input that fails the inputSchema
\* throws before anything is awaited.
WrapCall(i, name, issues) ==
  /\ inv[i].pc = "none"
  /\ \A j \in 1..(i - 1) : inv[j].pc # "none"
  /\ inv' = [inv EXCEPT ![i] =
               IF issues = {}
               THEN AwaitStep([NoInvocation EXCEPT !.toolName = name], 1)
               ELSE [NoInvocation EXCEPT !.toolName = name, !.pc = "failed",
                                         !.issues = issues,
                                         !.error = InvalidInput(issues)]]
  /\ UNCHANGED <<toolRows, toolEvents>>

\* tool-call.ts lines 161-181: ToolCall.create({..., status: "running"})
startToolCall(rows, i, name) ==
  Append(rows, [toolName |-> name, status |-> "running", createdBy |-> i,
                completedBy |-> 0])

\* tool-call.ts lines 183-199: findOneAndUpdate({ messageId, toolName,
\* status: "running" }, { status: "complete", output, durationMs }): the
\* first matching document in the collection's order, if there is one.
completeToolCall(rows, i, name) ==
  LET matching == {r \in DOMAIN rows :
                     rows[r].toolName = name /\ rows[r].status = "running"}
  IN IF matching = {} THEN rows
     ELSE LET r == CHOOSE x \in matching : \A y \in matching : x <= y
          IN [rows EXCEPT ![r].status = "complete", ![r].completedBy = i]

\* The await of invocation i resolves: its effect is in place and the
\* wrapper runs up to its next await, or returns after the last one.
WrapResolve(i) ==
  /\ inv[i].pc = "await"
  /\ LET s == inv[i].step
         name == inv[i].toolName
         step == WrapSteps[s]
         after == [inv[i] EXCEPT
                     !.row = IF step = "startToolCall" THEN Len(toolRows) + 1 ELSE @,
                     !.returned = @ \/ step = "execute",
                     !.wrote = @ \/ step = "completeToolCall"]
     IN /\ toolRows' =
             IF step = "startToolCall" THEN startToolCall(toolRows, i, name)
             ELSE IF step = "completeToolCall"
                  THEN completeToolCall(toolRows, i, name)
                  ELSE toolRows
        /\ toolEvents' =
             IF step = "publishToolStart"
             THEN Append(toolEvents, [event |-> "tool:start", toolName |-> name, by |-> i])
             ELSE IF step = "publishToolComplete"
                  THEN Append(toolEvents,
                              [event |-> "tool:complete", toolName |-> name, by |-> i])
                  ELSE toolEvents
        /\ inv' = [inv EXCEPT ![i] =
                     IF s < Len(WrapSteps) THEN AwaitStep(after, s + 1)
                     ELSE [after EXCEPT !.pc = "done"]]

\* The await of invocation i rejects: the wrapper throws and nothing of the
\* awaited call is in place.
WrapReject(i) ==
  /\ inv[i].pc = "await"
  /\ inv' = [inv EXCEPT ![i].pc = "failed",
                        ![i].error = [message |-> WrapSteps[inv[i].step],
                                      fields |-> {}]]
  /\ UNCHANGED <<toolRows, toolEvents>>

NextTools ==
  \/ \E i \in Invocations, name \in ToolNames, issues \in SUBSET InputFields :
       WrapCall(i, name, issues)
  \/ \E i \in Invocations : WrapResolve(i)
  \/ \E i \in Invocations : WrapReject(i)

(***************************************************************************)
(* POST /api/chat (app/api/chat/route.ts) with the createResponse it        *)
(* starts, the worker queue it feeds and the memory store both read.  The   *)
(* request is the session user's; the store also holds another user's       *)
(* memories.                                                                *)
(***************************************************************************)
ChatUser == "u1"
StoreUsers == {"u1", "u2"}

\* A stored message of the thread; request marks the turn this POST saves.
Turn(role, request) == [role |-> role, request |-> request]

\* The messages of a thread that the request names: an earlier exchange.
EarlierTurns == <<Turn("user", FALSE), Turn("assistant", FALSE)>>

NoRoute == [pc |-> "idle", status |-> 0, started |-> FALSE]
NoHistory == [loaded |-> FALSE, messages |-> <<>>]

InitChat ==
  /\ route = NoRoute
  /\ turns = <<>>
  /\ history = NoHistory

\* Lines 71-85: createResponse is called (it runs to its first await, the
\* loads of agent.ts line 80) and the JSON answer is returned.
Respond(r) == [r EXCEPT !.pc = "returned", !.status = 200, !.started = TRUE]

\* Lines 62-68: the catch of the save block returns the 500 answer.
AfterSaveFailure_FallsThrough(r) == Respond(r)
AfterSaveFailure(r) == [r EXCEPT !.pc = "returned", !.status = 500]

\* Lines 14-50: no cookie -> 401, no content -> 400; without a threadId
\* ThreadManager.create is awaited, with one createMessage is.
RoutePost(valid, threadGiven) ==
  /\ route.pc = "idle"
  /\ IF ~valid
     THEN /\ \E st \in {400, 401} :
               route' = [route EXCEPT !.pc = "returned", !.status = st]
          /\ UNCHANGED turns
     ELSE IF threadGiven
          THEN /\ route' = [route EXCEPT !.pc = "save"]
               /\ turns' = EarlierTurns
          ELSE /\ route' = [route EXCEPT !.pc = "thread"]
               /\ UNCHANGED turns
  /\ UNCHANGED <<qvars, memories, cr, history>>

\* Lines 36-49: the new thread is there and createMessage is awaited, or
\* the creation failed and the 500 answer is returned.
RouteThread ==
  /\ route.pc = "thread"
  /\ \/ route' = [route EXCEPT !.pc = "save"]
     \/ route' = [route EXCEPT !.pc = "returned", !.status = 500]
  /\ UNCHANGED <<qvars, memories, cr, turns, history>>

\* Lines 52-80: createMessage resolves: the turn is stored, the job is
\* queued and createResponse is started; or it rejects.
RouteSave ==
  /\ route.pc = "save"
  /\ \/ /\ turns' = Append(turns, Turn("user", TRUE))
        /\ queueMemoryExtraction("t1")
        /\ route' = Respond(route)
     \/ /\ route' = AfterSaveFailure(route)
        /\ UNCHANGED <<qvars, turns>>
  /\ UNCHANGED <<memories, cr, history>>

\* agent.ts lines 80-92 on this store and this thread.
ChatLoad ==
  /\ route.started
  /\ LoadContextOf({ActiveIds(memories, ChatUser)}, {Len(turns)})
  /\ history' = IF cr'.pc = "catch" THEN history
                ELSE [loaded |-> TRUE, messages |-> turns]
  /\ UNCHANGED <<qvars, memories, route, turns>>

\* agent.ts line 316 on this store: what recordMemoryAccess is given.
CitationWrite_LoadedIds(store, c, t) == recordMemoryAccess(store, c.memoryIds, t)
CitationWrite(store, c, t) ==
  recordMemoryAccess(store, c.referencedMemoryIds, t)

ChatRecord ==
  /\ RecordCitations
  /\ memories' = IF cr'.pc = "find" THEN CitationWrite(memories, cr, now)
                 ELSE memories
  /\ UNCHANGED <<qvars, cvars>>

ChatFind ==
  /\ FindReferencedIn(memories)
  /\ UNCHANGED <<qvars, memories, cvars>>

\* agent.ts lines 325-332: the assistant turn is stored in the thread.
ChatPersist ==
  /\ PersistTurn
  /\ turns' = IF cr'.pc = "complete"
              THEN Append(turns, Turn("assistant", FALSE)) ELSE turns
  /\ UNCHANGED <<qvars, memories, route, history>>

\* The steps of createResponse that touch neither the store nor the thread.
\* One batch of at most one tool call keeps the loop short here.
ChatStep ==
  /\ route.started
  /\ \/ BuildMessages
     \/ ModelPass /\ (cr'.pc = "tools" => cr.pass = 1 /\ Len(cr'.toolCalls) <= 1)
     \/ ToolStep(1)
     \/ ToolsJoin
     \/ FinalStream
     \/ PublishComplete
     \/ CatchPublish
  /\ UNCHANGED <<qvars, memories, cvars>>

\* The worker creates a memory (thread-update-worker.ts line 145) for one
\* of the users; the user deletes one of their memories.
NextChat ==
  \/ \E valid, threadGiven \in BOOLEAN : RoutePost(valid, threadGiven)
  \/ RouteThread
  \/ RouteSave
  \/ ChatLoad
  \/ ChatStep
  \/ ChatRecord
  \/ ChatFind
  \/ ChatPersist
  \/ \E u \in StoreUsers : MemCreate(u) /\ UNCHANGED <<qvars, cr, cvars>>
  \/ \E i \in MemIds : UserDelete(i) /\ UNCHANGED <<qvars, cr, cvars>>

(***************************************************************************)
(* expireMemories (models/memory.ts lines 89-161) as a call with a return   *)
(* value: em holds the call's userId and config, the toExpire list it       *)
(* built from the find, the date it took, and what it returned.             *)
(***************************************************************************)
NoCall == [pc |-> "idle", userId |-> "u1", cfg |-> DEFAULT_EXPIRE_CONFIG,
           toExpire |-> <<>>, now |-> NULL,
           expiredCount |-> 0, expiredIds |-> <<>>]

InitExpireCall == em = NoCall

\* Lines 153-156: updateMany({_id: {$in: toExpire}}, {$set: {deletedAt: now}})
expireUpdateMany(store, ids, t) ==
  [i \in Known(store) |->
     IF i \in ids THEN [store[i] EXCEPT !.deletedAt = t] ELSE store[i]]

\* Lines 99-151: the find resolves and toExpire is built; with nothing to
\* expire the call returns { expiredCount: 0, expiredIds: [] }.
CallFind(u, cfg) ==
  /\ em.pc = "idle"
  /\ LET ids == toExpire(memories, u, cfg, now)
     IN em' = IF ids = <<>>
              THEN [NoCall EXCEPT !.pc = "returned", !.userId = u, !.cfg = cfg]
              ELSE [NoCall EXCEPT !.pc = "update", !.userId = u, !.cfg = cfg,
                                  !.toExpire = ids, !.now = now]
  /\ UNCHANGED <<memories, now>>

\* Lines 153-160: the updateMany resolves and the call returns.
CallUpdate ==
  /\ em.pc = "update"
  /\ memories' = expireUpdateMany(memories, Range(em.toExpire), em.now)
  /\ em' = [em EXCEPT !.pc = "returned",
                      !.expiredCount = Len(em.toExpire),
                      !.expiredIds = em.toExpire]
  /\ UNCHANGED now

\* The caller has the return value; the next call can be made.
CallReturn ==
  /\ em.pc = "returned"
  /\ em' = NoCall
  /\ UNCHANGED <<memories, now>>

\* Calls of expireMemories for one user, with creations, days, citations
\* and the user's deletions between calls; the memories a call soft-deleted
\* stay in the store for the next call's find to pass over.
NextExpireCall ==
  \/ em.pc = "idle" /\ MemCreate("u1") /\ UNCHANGED em
  \/ em.pc = "idle" /\ Tick /\ UNCHANGED em
  \/ \E i \in MemIds : em.pc = "idle" /\ RecordAccess({i}) /\ UNCHANGED em
  \/ \E i \in MemIds : em.pc = "idle" /\ DeleteRoute(i) /\ UNCHANGED em
  \/ \E cfg \in Configs : CallFind("u1", cfg)
  \/ CallUpdate
  \/ CallReturn

(***************************************************************************)
(* createThrottledStreamPublisher (lib/ably.ts lines 40-112): one publisher *)
(* with its closure variables, the clock Date.now() reads, the texts pushed *)
(* so far and the stream:text publishes initiated on the channel, in the    *)
(* order of their initiation.  A text is a sequence of characters; the      *)
(* n-th push carries the character n, or the empty text.                    *)
(***************************************************************************)
MaxPushes == 3      \* calls of push on one publisher
MaxClock == 150     \* the clock, in milliseconds, does not run beyond this
MaxFlushes == 2     \* calls of flush on one publisher

\* const PUBLISH_INTERVAL_MS = 50, line 41
PUBLISH_INTERVAL_MS == 50

\* How much time passes between two steps of the event loop; any number of
\* steps are taken at one reading of the clock.
Elapses == {25}

\* let pendingTimeout = null, line 44; a timer is known by its due time.
NoTimer == 0

\* Lines 41-45, with the clock well past lastPublishTime = 0.
InitPublisher ==
  tp = [buffer |-> <<>>, lastPublishTime |-> 0, pendingTimeout |-> NoTimer,
        isFlushing |-> FALSE, clock |-> PUBLISH_INTERVAL_MS,
        pushed |-> <<>>, pushes |-> 0, flushes |-> 0, sent |-> <<>>,
        inFlight |-> {}, flushedAt |-> -1]

\* channel.publish("stream:text", { text, messageId }), lines 55 and 104:
\* the request goes out when the call is made; ok is the transport's answer.
Publish(p, text, by, ok) ==
  [p EXCEPT !.sent = Append(@, [text |-> text, at |-> p.clock, by |-> by,
                                ok |-> ok])]

\* doPublish, lines 47-59
doPublish_KeepsTime(p, ok) ==
  IF p.buffer = <<>> \/ p.isFlushing THEN p
  ELSE Publish([p EXCEPT !.buffer = <<>>], p.buffer, "doPublish", ok)
doPublish(p, ok) ==
  IF p.buffer = <<>> \/ p.isFlushing THEN p
  ELSE Publish([p EXCEPT !.buffer = <<>>, !.lastPublishTime = p.clock],
               p.buffer, "doPublish", ok)

\* Line 78: const delay = PUBLISH_INTERVAL_MS - timeSinceLastPublish
Delay(timeSinceLastPublish) == PUBLISH_INTERVAL_MS - timeSinceLastPublish

\* Line 66: buffer += text
Buffered_Replaces(buffer, text) == text
Buffered(buffer, text) == buffer \o text

\* push(text), lines 65-85
push(text) ==
  /\ tp.pushes < MaxPushes
  /\ LET p == [tp EXCEPT !.buffer = Buffered(@, text), !.pushed = @ \o text,
                         !.pushes = @ + 1]
         timeSinceLastPublish == p.clock - p.lastPublishTime
     IN IF timeSinceLastPublish >= PUBLISH_INTERVAL_MS
        THEN \E ok \in BOOLEAN :
               tp' = doPublish([p EXCEPT !.pendingTimeout = NoTimer], ok)
        ELSE IF p.pendingTimeout = NoTimer
             THEN tp' = [p EXCEPT !.pendingTimeout =
                                    p.clock + Delay(timeSinceLastPublish)]
             ELSE tp' = p

\* The callback of setTimeout, lines 79-82, no earlier than its delay.
TimerFires ==
  /\ tp.pendingTimeout # NoTimer
  /\ tp.clock >= tp.pendingTimeout
  /\ \E ok \in BOOLEAN :
       tp' = doPublish([tp EXCEPT !.pendingTimeout = NoTimer], ok)

\* A flush that was issued after k pushes has resolved.
Resolved(p, k) ==
  [p EXCEPT !.isFlushing = FALSE,
            !.flushedAt = IF k > @ THEN k ELSE @]

\* flush(), lines 92-109, up to its await; with an empty buffer it has no
\* await and runs to its end.
flush ==
  /\ tp.flushes < MaxFlushes
  /\ LET p == [tp EXCEPT !.isFlushing = TRUE, !.pendingTimeout = NoTimer,
                         !.flushes = @ + 1]
     IN IF p.buffer # <<>>
        THEN \E ok \in BOOLEAN :
               tp' = Publish([p EXCEPT !.buffer = <<>>,
                                       !.inFlight = @ \cup {p.pushes}],
                             p.buffer, "flush", ok)
        ELSE tp' = Resolved(p, p.pushes)

\* Lines 104-108: the awaited publish of a flush settles (a rejection is
\* caught and logged), isFlushing = false.
FlushSettles(k) ==
  /\ k \in tp.inFlight
  /\ tp' = Resolved([tp EXCEPT !.inFlight = @ \ {k}], k)

\* Time passes.
Elapse(d) ==
  /\ tp.clock + d <= MaxClock
  /\ tp' = [tp EXCEPT !.clock = @ + d]

NextPublisher ==
  \/ \E text \in {<<>>, <<tp.pushes + 1>>} : push(text)
  \/ TimerFires
  \/ flush
  \/ \E k \in 0..MaxPushes : FlushSettles(k)
  \/ \E d \in Elapses : Elapse(d)

(***************************************************************************)
(* Every write the code makes to the Memory collection, each as the one     *)
(* database call it is, in any order: the worker's loads and writes of      *)
(* thread-update-worker.ts lines 109-218 (ex holds its snapshot), the       *)
(* updateMany of expireMemories, and recordMemoryAccess and                 *)
(* softDeleteMemories with any ids (consolidation, removal, DELETE route).  *)
(* All of it within one day.                                                *)
(***************************************************************************)
MaxWrites == 5      \* writes to the Memory collection in one run of the store

\* Lines 109-113: findActiveMemories({ userId }) and the map built from it,
\* for one of at most MaxRuns jobs.
StoreLoad ==
  /\ ex.runs < MaxRuns
  /\ ex' = [ex EXCEPT
              !.runs = @ + 1,
              !.existing = ActiveIds(memories, ex.userId),
              !.existingMap = [i \in ActiveIds(memories, ex.userId) |-> memories[i]]]
  /\ UNCHANGED <<memories, now, exp>>

\* Lines 139-202: the write of one output item, decided on the snapshot:
\* Memory.create, findByIdAndUpdate of the single source, or of the kept one.
StoreReconcile(item) ==
  /\ LET sourceIds == FilterSources(item.sourceIds, ex.existingMap)
         sorted == SortByCreated(sourceIds, ex.existingMap)
     IN IF Len(sourceIds) = 0
        THEN /\ Len(memories) < MaxMem
             /\ memories' = Append(memories,
                                   CreatedMemory(ex.userId, item.content, now))
        ELSE IF Len(sourceIds) = 1
        THEN memories' = [memories EXCEPT ![sourceIds[1]].content = item.content]
        ELSE /\ totalAccessCount(sourceIds, ex.existingMap) <= MaxAccess + MaxAccess
             /\ memories' = ConsolidateUpdate(memories, KeepId(sorted), item,
                                              sourceIds, ex.existingMap)
  /\ UNCHANGED <<now, exp>>

\* One more write to the collection, of the MaxWrites of a run.
Written ==
  /\ ex.left < MaxWrites
  /\ ex' = [ex EXCEPT !.left = @ + 1]

\* memory.ts lines 153-156: updateMany({ _id: { $in: toExpire } }, ...)
StoreExpire(ids) ==
  /\ memories' = expireUpdateMany(memories, ids \cap Known(memories), now)
  /\ UNCHANGED <<now, exp>>

NextStore ==
  \/ \E ids \in SUBSET MemIds : SoftDelete(ids) /\ Written
  \/ \E ids \in SUBSET MemIds : RecordAccess(ids) /\ Written
  \/ StoreLoad
  \/ \E item \in OutputItems(MemIds, 2) : StoreReconcile(item) /\ Written
  \/ \E ids \in SUBSET MemIds : StoreExpire(ids) /\ Written

(***************************************************************************)
(* The specifications.                                                     *)
(***************************************************************************)
Init == InitQueue /\ InitMem /\ InitAgent /\ InitStream /\ InitExtract
          /\ InitTools /\ InitChat /\ InitExpireCall /\ InitPublisher

Next == NextQueue /\ UNCHANGED <<mvars, avars, svars, rvars, tvars, cvars, xvars, pvars>>
Spec == Init /\ [][Next]_vars

SpecMem == Init /\ [][NextMem /\ UNCHANGED <<qvars, avars, svars, rvars, tvars, cvars, xvars, pvars>>]_vars

SpecExpire == Init /\ [][NextExpire /\ UNCHANGED <<qvars, avars, svars, rvars, tvars, cvars, xvars, pvars>>]_vars

SpecAgent == Init /\ [][NextAgent /\ UNCHANGED <<qvars, mvars, svars, rvars, tvars, cvars, xvars, pvars>>]_vars

\* Every await of createResponse settles: its continuation is run.
\* Every await of extractMemories settles and the continuation of
\* processQueue is run; nothing obliges a caller to enqueue.
WorkerStep ==
  \E d \in JobIds :
    \/ JobLoad(d) \/ JobToolCalls(d) \/ JobModelCall(d) \/ JobReconcile(d)
    \/ JobRemove(d) \/ JobExpire(d) \/ JobNotify(d) \/ processQueue(d)

SpecLive ==
  Spec /\ WF_vars(WorkerStep /\ UNCHANGED <<mvars, avars, svars, rvars, tvars, cvars, xvars, pvars>>)

SpecAgentLive ==
  SpecAgent /\ WF_vars(NextAgent /\ UNCHANGED <<qvars, mvars, svars, rvars, tvars, cvars, xvars, pvars>>)

SpecStream == Init /\ [][NextStream /\ UNCHANGED <<qvars, mvars, avars, rvars, tvars, cvars, xvars, pvars>>]_vars

SpecExtract ==
  Init /\ [][NextExtract /\ UNCHANGED <<qvars, exp, lastOp, avars, svars, tvars, cvars, xvars, pvars>>]_vars

SpecInterleaved ==
  Init /\ [][NextInterleaved /\ UNCHANGED <<qvars, exp, lastOp, avars, svars, tvars, cvars, xvars, pvars>>]_vars

SpecTools ==
  Init /\ [][NextTools /\ UNCHANGED <<qvars, mvars, avars, svars, rvars, cvars, xvars, pvars>>]_vars

SpecOverLimit ==
  Init /\ [][NextOverLimit /\ UNCHANGED <<qvars, now, exp, lastOp, avars, svars, tvars, cvars, xvars, pvars>>]_vars

SpecChat ==
  Init /\ [][NextChat /\ UNCHANGED <<now, exp, lastOp, svars, rvars, tvars, xvars, pvars>>]_vars

SpecExpireCall ==
  Init /\ [][NextExpireCall /\ UNCHANGED <<qvars, exp, lastOp, avars, svars, rvars, tvars, cvars, pvars>>]_vars

SpecPublisher ==
  Init /\ [][NextPublisher /\ UNCHANGED <<qvars, mvars, avars, svars, rvars, tvars, cvars, xvars>>]_vars

SpecStore ==
  Init /\ [][NextStore /\ UNCHANGED <<qvars, lastOp, avars, svars, tvars, cvars, xvars, pvars>>]_vars

(***************************************************************************)
(* The claims.                                                             *)
(***************************************************************************)
InFlight == {d \in JobIds : Running(d)}
AtRest == \A d \in JobIds : drain[d].pc \in {"none", "returned", "done"}

\* C1: at most one extractMemories execution is in flight at any time, an
\* execution is in flight only while the drain flag is set, and no drain was
\* started by a processQueue call that saw the flag set.
C1_SingleExtraction ==
  /\ Cardinality(InFlight) <= 1
  /\ \A d \in JobIds :
       drain[d].pc \in {"running", "settled", "done", "crashed"}
         => ~drain[d].sawFlag
  /\ (\E d \in JobIds : drain[d].pc \in {"running", "settled"}) => processing

\* A job is in flight, another job waits, and a later processQueue call
\* returned at once because the flag was set.
C1_Witness ==
  /\ \E d \in JobIds : Running(d) /\ drain[d].phase = "reconcile"
  /\ Len(queue) >= 1
  /\ \E d \in JobIds : drain[d].pc = "returned"

\* C2: a throwing job does not end the drain: no drain ever dies, and when
\* no drain is active every enqueued job has been executed, the queue is
\* empty and the flag is clear.
C2_ErrorContained ==
  /\ \A d \in JobIds : drain[d].pc # "crashed"
  /\ AtRest =>
       /\ queue = <<>>
       /\ ~processing
       /\ \A j \in 1..enqueued : outcome[j] \in {"returned", "threw"}

\* One job threw while others were queued behind it; those ran to their end
\* and the drain then stopped with the flag clear.
C2_Witness ==
  /\ AtRest
  /\ ~processing
  /\ \E j \in JobIds : outcome[j] = "threw"
  /\ \E k \in queuedAtThrow : outcome[k] = "returned"

ActiveCount(store, u) == Cardinality(ActiveIds(store, u))

\* C3: expire picks its victims among the user's active memories, keeps at
\* least min(currentCount, maxMemories) of them, picks none when
\* currentCount <= maxMemories, and its write soft-deletes the picked
\* memories and touches nothing else: with no other deletion in between, the
\* user's active count after expire is at least min(currentCount, maxMemories).
C3_ExpireFloor ==
  [][/\ lastOp'.op = "expireLoad" =>
          LET act == ActiveIds(memories, lastOp'.userId)
              L == Cardinality(act)
          IN /\ memories' = memories
             /\ lastOp'.ids \subseteq act
             /\ L - Cardinality(lastOp'.ids) >= Min(L, lastOp'.maxMemories)
             /\ L <= lastOp'.maxMemories => lastOp'.ids = {} /\ exp'.pc = "idle"
             /\ exp'.pc = "write" => exp'.ids = lastOp'.ids
     /\ lastOp'.op = "expireWrite" =>
          /\ \A i \in Known(memories) :
               IF i \in exp.ids
               THEN memories'[i] = [memories[i] EXCEPT !.deletedAt = exp.now]
               ELSE memories'[i] = memories[i]
          /\ ActiveIds(memories, exp.userId) = exp.loaded
               => ActiveCount(memories', exp.userId) >= exp.floor
    ]_vars

\* expire has just soft-deleted at least one memory of a user who was over
\* the limit, and a memory is still active.
C3_Witness ==
  /\ lastOp.op = "expireWrite"
  /\ lastOp.ids # {}
  /\ \E i \in Known(memories) : i \in lastOp.ids /\ memories[i].deletedAt # NULL
  /\ \E i \in Known(memories) : i \notin lastOp.ids /\ memories[i].deletedAt = NULL

\* C4 (as stated): every memory id that the final structured output carries in
\* memoriesReferenced, that is passed to recordMemoryAccess and that is
\* persisted on the assistant turn is one of the active memory ids loaded for
\* the invocation, for every size of that set, zero included.
C4_CitationConfined ==
  /\ cr.referencedMemoryIds \subseteq cr.memoryIds
  /\ cr.recorded.ids \subseteq cr.memoryIds
  /\ cr.message.referencedMemories \subseteq cr.memoryIds

\* C4 (amended): when at least one active memory was loaded, every cited id
\* of the output, of the recordMemoryAccess call and of the persisted turn is
\* one of the loaded active ids; the ids recorded and persisted are the
\* output's ids.  With no active memory the schema does not confine the ids.
C4_CitationConfinedNonEmpty ==
  /\ cr.memoryIds # {} =>
       /\ cr.referencedMemoryIds \subseteq cr.memoryIds
       /\ cr.recorded.ids \subseteq cr.memoryIds
       /\ cr.message.referencedMemories \subseteq cr.memoryIds
  /\ cr.recorded.called => cr.recorded.ids = cr.referencedMemoryIds
  /\ cr.message.created => cr.message.referencedMemories = cr.referencedMemoryIds

\* A turn with cited ids was recorded and persisted by an invocation that
\* had loaded active memories.
C4_Witness ==
  /\ cr.pc = "returned"
  /\ cr.memoryIds # {}
  /\ cr.recorded.called
  /\ cr.message.created
  /\ cr.message.referencedMemories # {}

\* C5: recordCitation(ids) adds exactly one to accessCount and stamps
\* lastAccessedAt on the supplied ids that are active; a supplied soft-deleted
\* memory and every memory not supplied stay as they were; nothing is created.
C5_RecordCitation ==
  [][\A ids \in SUBSET MemIds :
       RecordAccess(ids) =>
         /\ Known(memories') = Known(memories)
         /\ \A i \in Known(memories) :
              IF i \in ids /\ memories[i].deletedAt = NULL
              THEN /\ memories'[i].accessCount = memories[i].accessCount + 1
                   /\ memories'[i].lastAccessedAt = now
                   /\ memories'[i].deletedAt = NULL
                   /\ memories'[i].content = memories[i].content
                   /\ memories'[i].userId = memories[i].userId
                   /\ memories'[i].createdAt = memories[i].createdAt
                   /\ memories'[i].consolidatedFromIds = memories[i].consolidatedFromIds
              ELSE memories'[i] = memories[i]
    ]_vars

\* recordMemoryAccess has just run on a list holding an active memory, now
\* counted, and a soft-deleted one, still deleted and never counted.
C5_Witness ==
  /\ lastOp.op = "recordAccess"
  /\ \E i \in lastOp.ids \cap Known(memories) :
       /\ memories[i].deletedAt = NULL
       /\ memories[i].accessCount = 1
       /\ memories[i].lastAccessedAt = now
  /\ \E j \in lastOp.ids \cap Known(memories) :
       /\ memories[j].deletedAt # NULL
       /\ memories[j].accessCount = 0

\* C6: softDelete on ids that are all already soft-deleted (or on no id) leaves
\* the store unchanged, the existing deletion timestamps included.
C6_SoftDeleteNoop ==
  [][\A ids \in SUBSET MemIds :
       (SoftDelete(ids)
          /\ \A i \in ids \cap Known(memories) : memories[i].deletedAt # NULL)
         => memories' = memories
    ]_vars

\* The tool loop within its cap: at most maxPasses tool-enabled model calls;
\* past the cap there was no final call, the response is empty, nothing was
\* recorded or persisted, and only the completion publish can still throw.
LoopCapped ==
  /\ cr.modelCalls <= maxPasses
  /\ cr.pass > maxPasses =>
       /\ cr.modelCalls = maxPasses
       /\ cr.finalCalls = 0
       /\ cr.pc \in {"complete", "returned", "catch", "threw"}
       /\ cr.responseText = ""
       /\ ~cr.recorded.called
       /\ ~cr.message.created
       /\ cr.thrown \in {"none", "publishStreamComplete failed"}
  /\ (cr.pc = "returned" /\ cr.finalCalls = 0) =>
       /\ cr.modelCalls = maxPasses
       /\ cr.pass > maxPasses
       /\ cr.completeEvent = [status |-> "sent", text |-> "", memoriesUsed |-> {}]

\* C7: createResponse always comes to an end, and with a model that asks for
\* tools on every pass it does so after exactly maxPasses (10) tool-enabled
\* model calls and no other call: it leaves the loop with an empty response
\* and returns, unless the completion publish itself fails.
C7_ToolLoopTerminates ==
  /\ []LoopCapped
  /\ <>(cr.pc \in {"returned", "threw"})

\* createResponse has returned after ten tool passes and no final call.
C7_Witness ==
  /\ cr.pc = "returned"
  /\ cr.finalCalls = 0
  /\ cr.modelCalls = maxPasses
  /\ cr.raised = "none"

\* C8: for the payload {"response":"Hello, world!","memoriesReferenced":["m1"]}
\* in any split into chunks, what is published is always a prefix of
\* Hello, world!, it is exactly Hello, world! once the whole payload has been
\* delivered, and the parse gives the response Hello, world! and the ids [m1].
C8_HelloWorldStream ==
  stream.payload = HelloPayload =>
    /\ IsPrefix(published, HelloText)
    /\ stream.pos = Len(HelloPayload) => published = HelloText
    /\ stream.pc = "ended" =>
         /\ published = HelloText
         /\ parsed.ok
         /\ parsed.responseText = HelloText
         /\ parsed.referencedMemoryIds = <<M1>>

\* The Hello, world! payload has been delivered with a chunk boundary inside
\* the marker, and parsed.
C8_Witness ==
  /\ stream.payload = HelloPayload
  /\ stream.pc = "ended"
  /\ stream.markerSplit
  /\ published = HelloText
  /\ parsed.ok

\* C9: a tool call that throws never takes createResponse to its catch
\* block: the tool call ends with a textual result, the other tool calls of
\* the batch are untouched, and when all have ended one role=tool message per
\* tool call carries its result (an error text for every tool call that was
\* invalid, unparsable or unknown) and the loop goes to its next pass.
C9_ToolErrorContained ==
  [][cr.pc = "tools" =>
       /\ cr'.pc \in {"tools", "model", "complete"}
       /\ cr'.thrown = "none"
       /\ \A i \in DOMAIN cr.toolCalls :
            /\ cr.currentMessages[1].tool_calls[i] # "valid" =>
                 /\ cr.toolCalls[i].pc = "done"
                 /\ cr.toolCalls[i].result \in ErrorTexts
            /\ cr.toolCalls[i].pc = "done" =>
                 cr.toolCalls[i].result \in ErrorTexts \cup {"output"}
            /\ (cr'.pc = "tools" /\ cr'.toolCalls[i] # cr.toolCalls[i]) =>
                 \A j \in DOMAIN cr.toolCalls \ {i} :
                   cr'.toolCalls[j] = cr.toolCalls[j]
       /\ cr'.pc # "tools" =>
            /\ \A i \in DOMAIN cr.toolCalls : cr.toolCalls[i].pc = "done"
            /\ Len(cr'.currentMessages) = 1 + Len(cr.toolCalls)
            /\ cr'.currentMessages[1] = cr.currentMessages[1]
            /\ \A i \in DOMAIN cr.toolCalls :
                 cr'.currentMessages[1 + i] =
                   ToolMessage(i, cr.toolCalls[i].result)
            /\ IF cr.pass < maxPasses
               THEN cr'.pc = "model" /\ cr'.modelCalls = cr.modelCalls + 1
               ELSE cr'.pc = "complete"
    ]_vars

\* A batch in which one capability threw and another succeeded has been
\* joined, and the next model call is under way.
C9_Witness ==
  /\ cr.pc = "model"
  /\ cr.thrown = "none"
  /\ \E i, j \in 2..Len(cr.currentMessages) :
       /\ cr.currentMessages[i].content = "Error: execute failed"
       /\ cr.currentMessages[j].content = "output"

\* C10: an exception of any step takes createResponse to its catch block,
\* where publishStreamError is called with the error's message; whether that
\* publish succeeds or fails, createResponse then rejects with the original
\* error; it never returns after an exception.
C10_ErrorPublishedThenRethrown ==
  /\ cr.thrown # "none" =>
       /\ cr.pc \in {"catch", "threw"}
       /\ cr.errorEvent.message = cr.thrown
  /\ cr.pc = "catch" =>
       /\ cr.thrown # "none"
       /\ cr.errorEvent.status = "pending"
       /\ cr.raised = "none"
  /\ cr.pc = "threw" =>
       /\ cr.thrown # "none"
       /\ cr.errorEvent.status \in {"sent", "failed"}
       /\ cr.raised = cr.thrown
  /\ cr.pc \notin {"catch", "threw"} =>
       /\ cr.thrown = "none"
       /\ cr.raised = "none"
       /\ cr.errorEvent.status = "none"

\* The error publish itself failed and the original error was re-raised.
C10_Witness ==
  /\ cr.pc = "threw"
  /\ cr.errorEvent.status = "failed"
  /\ cr.thrown = "createMessage failed"
  /\ cr.raised = "createMessage failed"

\* The sum of the loaded accessCounts and the most recent loaded
\* lastAccessedAt of a set of memories.
RECURSIVE SumOfAccessCounts(_, _)
SumOfAccessCounts(S, loaded) ==
  IF S = {} THEN 0
  ELSE LET i == CHOOSE x \in S : TRUE
       IN loaded[i].accessCount + SumOfAccessCounts(S \ {i}, loaded)

LatestAccess(S, loaded) ==
  IF \A i \in S : loaded[i].lastAccessedAt = NULL THEN NULL
  ELSE CHOOSE t \in {loaded[i].lastAccessedAt : i \in S} :
         \A i \in S : loaded[i].lastAccessedAt <= t

\* C11: when an output item names two or more loaded memories, the update of
\* the consolidation is made on the oldest-created of them and sets its
\* accessCount to the sum of their accessCounts and its lastAccessedAt to the
\* most recent of theirs, and the deletion that follows soft-deletes every
\* other source and leaves the survivor as it was.
C11_ConsolidationAccounting ==
  [][/\ (ex.pc = "loop" /\ ex'.pc = "softDelete") =>
          LET S == Range(ex'.sourceIds)
              keep == ex'.keepId
          IN Cardinality(S) >= 2 =>
               /\ keep \in S
               /\ \A i \in S : ex.existingMap[keep].createdAt
                                 <= ex.existingMap[i].createdAt
               /\ memories'[keep].accessCount
                    = SumOfAccessCounts(S, ex.existingMap)
               /\ memories'[keep].lastAccessedAt = LatestAccess(S, ex.existingMap)
     /\ (ex.pc = "softDelete" /\ ex'.ended # "threw") =>
          LET S == Range(ex.sourceIds)
              keep == ex.keepId
          IN Cardinality(S) >= 2 =>
               /\ \A i \in S \ {keep} : memories'[i].deletedAt # NULL
               /\ memories'[keep] = memories[keep]
    ]_vars

\* C12: once a job has read every item of the model's output list, every
\* memory it had loaded as active and that no item names in its sourceIds is
\* soft-deleted; for the empty list, with which the job returns, that is
\* every loaded memory.
C12_UnreferencedRemoved ==
  [][/\ ex'.pc \in {"expire", "expireWrite", "notify"} =>
          \A i \in ex'.existing \ ex'.named : memories'[i].deletedAt # NULL
     /\ (ex.pc = "model" /\ ex'.ended = "returned") =>
          \A i \in ex.existing : memories'[i].deletedAt # NULL
    ]_vars

\* C13: when an extraction job has returned, the user has at most maxMemories
\* (5) active memories.
C13_CapAfterJob ==
  (ex.pc = "idle" /\ ex.ended = "returned") =>
    ActiveCount(memories, ex.userId) <= DEFAULT_EXPIRE_CONFIG.maxMemories

\* C16: no step shrinks a memory's consolidatedFromIds: after every write the
\* value holds every id it held before.
C16_ConsolidatedFromGrows ==
  [][\A i \in Known(memories) :
       memories[i].consolidatedFromIds \subseteq memories'[i].consolidatedFromIds
    ]_vars

Published(e, i) ==
  \E k \in DOMAIN toolEvents : toolEvents[k].event = e /\ toolEvents[k].by = i

\* C14: for every invocation of a wrapped capability, its row exists (it was
\* created with status running) and its tool:start event is published when
\* the underlying execute is called; the invocation writes status complete
\* only after its execute has returned and publishes tool:complete only after
\* that write; a row is created as running, is set to complete only by an
\* invocation whose execute has returned, and once complete stays complete.
C14_InvocationOrder ==
  /\ [](\A i \in Invocations :
          /\ inv[i].began =>
               /\ inv[i].row \in DOMAIN toolRows
               /\ toolRows[inv[i].row].createdBy = i
               /\ Published("tool:start", i)
          /\ inv[i].wrote => inv[i].returned
          /\ inv[i].returned => inv[i].began
          /\ Published("tool:complete", i) => inv[i].wrote)
  /\ [][/\ \A r \in DOMAIN toolRows :
             /\ r \in DOMAIN toolRows'
             /\ toolRows[r].status = "complete" => toolRows'[r] = toolRows[r]
             /\ toolRows'[r].status # toolRows[r].status =>
                  /\ toolRows'[r].status = "complete"
                  /\ inv[toolRows'[r].completedBy].returned
        /\ \A r \in DOMAIN toolRows' \ DOMAIN toolRows :
             toolRows'[r].status = "running"
       ]_vars

\* Two invocations ran at the same time; the first has returned with its
\* row complete and both its events published while the second is still
\* inside execute with its row running.
C14_Witness ==
  /\ inv[1].pc = "done"
  /\ toolRows[inv[1].row].status = "complete"
  /\ Published("tool:start", 1) /\ Published("tool:complete", 1)
  /\ inv[2].pc = "await" /\ WrapSteps[inv[2].step] = "execute"
  /\ toolRows[inv[2].row].status = "running"

\* C15: a createResponse that has returned has persisted the assistant turn,
\* with the response text and the cited-memory list of the parse, whether the
\* text is empty or not and whether the loop ended at the pass cap or not.
C15_TurnPersisted ==
  cr.pc = "returned" =>
    /\ cr.message.created
    /\ cr.message.content = cr.responseText
    /\ cr.message.referencedMemories = cr.referencedMemoryIds

\* C17: a memory that the worker created for the user and that is active
\* is among the ids a later createResponse of that user loads (the ids its
\* system prompt lists and its output may name); when the model cites it,
\* an invocation that returns has persisted the assistant turn with the id
\* in its cited list, and the citation raised the memory's accessCount by
\* one (from 0 to 1 on the first citation).
C17_CreatedThenCited ==
  /\ [][(cr.pc = "load" /\ cr'.pc \notin {"load", "catch"})
          => cr'.memoryIds = ActiveIds(memories, ChatUser)]_vars
  /\ [][(cr.pc = "record" /\ cr'.pc = "find")
          => \A i \in cr.referencedMemoryIds \cap ActiveIds(memories, ChatUser) :
               memories'[i].accessCount = memories[i].accessCount + 1]_vars
  /\ [](cr.pc = "returned"
          => \A i \in cr.referencedMemoryIds \cap cr.memoryIds :
               /\ cr.message.created
               /\ i \in cr.message.referencedMemories)

HasRequestTurn(s) == \E k \in 1..Len(s) : s[k].request

\* C18: in the chat request the user turn is persisted before the memory
\* job is enqueued and before createResponse starts: the job is enqueued
\* and the loop is started only in the step in which createMessage
\* resolved, and the history the loop loads contains the request's user
\* turn; when persisting the turn fails (or the request ends with an error
\* answer), no job is enqueued and the loop is not started.
C18_SavedBeforeStart ==
  /\ [](/\ enqueued > 0 => HasRequestTurn(turns)
        /\ route.started => HasRequestTurn(turns)
        /\ history.loaded => HasRequestTurn(history.messages)
        /\ ~route.started => cr.pc = "load" /\ ~history.loaded
        /\ (route.pc = "returned" /\ route.status # 200)
             => enqueued = 0 /\ ~route.started /\ ~HasRequestTurn(turns))
  /\ [][(enqueued' # enqueued \/ route'.started # route.started)
          => /\ route.pc = "save"
             /\ ~HasRequestTurn(turns) /\ HasRequestTurn(turns')
             /\ enqueued' = enqueued + 1
             /\ route'.started]_vars

C18_Witness ==
  /\ cr.pc = "returned"
  /\ history.loaded /\ HasRequestTurn(history.messages)
  /\ enqueued = 1
  /\ route.status = 200

\* C19: a step of createResponse creates no memory, soft-deletes none and
\* changes no memory's content or consolidatedFromIds: the store keeps its
\* documents, and a document changes only if it was cited, and then only
\* in accessCount and lastAccessedAt; a step that adds a memory is a step
\* of the extraction worker, not of createResponse or the request.
C19_LoopFrame ==
  /\ [][cr' # cr
          => /\ Known(memories') = Known(memories)
             /\ \A i \in Known(memories) :
                  \/ memories'[i] = memories[i]
                  \/ /\ i \in cr.referencedMemoryIds
                     /\ memories'[i] =
                          [memories[i] EXCEPT
                             !.accessCount = memories'[i].accessCount,
                             !.lastAccessedAt = memories'[i].lastAccessedAt]]_vars
  /\ [][Known(memories') # Known(memories)
          => /\ cr' = cr /\ route' = route
             /\ memories' = Append(memories, memories'[Len(memories')])]_vars

C19_Witness ==
  /\ cr.pc = "find"
  /\ \E i \in cr.referencedMemoryIds \cap Known(memories) :
       memories[i].accessCount = 1 /\ memories[i].lastAccessedAt = now
  /\ \E j \in cr.memoryIds \ cr.referencedMemoryIds :
       memories[j].accessCount = 0 /\ memories[j].lastAccessedAt = NULL

Started(j) == outcome[j] \in {"running", "returned", "threw"}

\* C20: extraction jobs are executed in the order of the calls of
\* queueMemoryExtraction, whatever the interleaving of calls with running
\* jobs: a job starts only when every job enqueued before it has ended,
\* the queue holds the jobs not yet started in the order of their calls,
\* and the job a step starts is the earliest one not yet started.
C20_Fifo ==
  /\ [](/\ \A j \in JobIds :
             Started(j) => \A i \in 1..(j - 1) : outcome[i] \in {"returned", "threw"}
        /\ \A k \in 1..Len(queue) : queue[k].id = enqueued - Len(queue) + k)
  /\ [][\A j \in JobIds :
          (~Started(j) /\ outcome'[j] = "running")
            => /\ \A i \in 1..(j - 1) : outcome[i] \in {"returned", "threw"}
               /\ \A i \in (j + 1)..MaxJobs : ~Started(i)]_vars

C20_Witness ==
  /\ outcome[1] \in {"returned", "threw"}
  /\ outcome[2] = "running"
  /\ outcome[3] = "queued"
  /\ Len(queue) = 1

\* Ten times the score accessCount - ageInDays * 0.1 of memory i at date t.
TenScore(store, i, t) == 10 * store[i].accessCount - (t - store[i].createdAt)

\* Older than minAgeDays, fewer than minAccessCount citations, and never
\* cited or not cited within staleAfterDays.
IsStaleCandidate(store, i, cfg, t) ==
  /\ t - store[i].createdAt > cfg.minAgeDays
  /\ store[i].accessCount < cfg.minAccessCount
  /\ \/ store[i].lastAccessedAt = NULL
     \/ t - store[i].lastAccessedAt > cfg.staleAfterDays

\* r[a..b] lists members of pool in ascending score order, and no member of
\* pool that is left out has a lower score than a listed one.
LowestOf(r, a, b, pool, store, t) ==
  /\ \A j \in a..b : r[j] \in pool
  /\ \A j, k \in a..b : j < k => TenScore(store, r[j], t) <= TenScore(store, r[k], t)
  /\ \A i \in pool \ {r[j] : j \in a..b} :
       \A j \in a..b : TenScore(store, r[j], t) <= TenScore(store, i, t)

C22_PublishedIsDecoded ==
  (stream.pc = "ended" /\ parsed.ok) => published = parsed.responseText

\* The index (from 1) of the opening quote of the response value in a
\* payload, and the number of characters between it and the quote that
\* closes the value as JSON reads it.
ValueOpens(p) == IndexOf(p, Marker) + Len(Marker)
ValueLength(p) == ParseString(p, ValueOpens(p)).next - 2 - ValueOpens(p)

\* C23: during the final structured call no character outside the response
\* field's string value is published: of the text after the opening marker,
\* what has been streamed never reaches beyond the closing quote of the
\* value, for every payload that is JSON (a value ending with an escaped
\* backslash and a payload with memoriesReferenced after the response
\* included).
C23_OnlyResponseValue ==
  (stream.pc # "idle" /\ JSONparse(stream.payload).ok)
    => streamedLength <= ValueLength(stream.payload)

ParseFailed == cr.structuredContent.received /\ ~cr.structuredContent.json

\* C24: when the buffered text of the final structured call is not valid
\* JSON, createResponse does not fail on it: the buffered text itself is the
\* response text, the cited list is empty, recordMemoryAccess is not called,
\* no error is thrown unless a later await (createMessage,
\* publishStreamComplete) rejects, and an invocation that ends without such
\* a rejection has published the completion event with that text and no
\* error event.
C24_ParseFailureDegrades ==
  ParseFailed =>
    /\ cr.responseText = cr.structuredContent.text
    /\ cr.referencedMemoryIds = {}
    /\ ~cr.recorded.called /\ cr.memoriesUsed = {}
    /\ cr.pc \in {"persist", "complete", "returned", "catch", "threw"}
    /\ cr.pc \in {"catch", "threw"}
         => cr.thrown \in {"createMessage failed", "publishStreamComplete failed"}
    /\ cr.pc = "returned"
         => /\ cr.completeEvent = [status |-> "sent",
                                   text |-> cr.structuredContent.text,
                                   memoriesUsed |-> {}]
            /\ cr.errorEvent.status = "none"
            /\ cr.raised = "none"

\* An invocation whose final text was cut short has returned, after
\* persisting that text as the assistant turn.
C24_Witness ==
  /\ ParseFailed
  /\ cr.pc = "returned"
  /\ cr.structuredContent.text = "{\"response\":\"hi"
  /\ cr.message.created /\ cr.message.content = cr.structuredContent.text
  /\ cr.memoryIds # {}

\* C25: the model call of pass k+1 is issued only after every tool call of
\* pass k has settled, in the step in which the batch is joined, and the
\* message list then holds, directly after the assistant message with the
\* tool-call descriptors, exactly one role=tool message per tool call, with
\* that call's id and result, in tool-call index order.
C25_FanIn ==
  [][(cr'.modelCalls # cr.modelCalls /\ cr.modelCalls >= 1)
       => /\ cr.pc = "tools" /\ cr'.pc = "model"
          /\ cr'.pass = cr.pass + 1 /\ cr'.modelCalls = cr.modelCalls + 1
          /\ \A i \in DOMAIN cr.toolCalls : cr.toolCalls[i].pc = "done"
          /\ LET ms == cr'.currentMessages
                 n == Len(cr.toolCalls)
             IN /\ Len(ms) = n + 1
                /\ ms[1].role = "assistant"
                /\ Len(ms[1].tool_calls) = n
                /\ \A i \in 1..n :
                     /\ ms[i + 1].role = "tool"
                     /\ ms[i + 1].tool_call_id = i
                     /\ ms[i + 1].content = cr.toolCalls[i].result]_vars

\* The model call of pass 2 is out after a batch of two tool calls, one of
\* which ended with an error text.
C25_Witness ==
  /\ cr.pc = "model" /\ cr.pass = 2
  /\ Len(cr.currentMessages) = 3
  /\ cr.currentMessages[2].content = "output"
  /\ cr.currentMessages[3].content = "Error: execute failed"

\* C26: every extraction job that obtained a model output goes through
\* reconciling, expiring and notifying in that order before it is done:
\* expireMemories is entered from the reconciliation only, the notification
\* from a finished expireMemories only, and a job that got an output
\* returns from the notification only, with expireMemories behind it,
\* whatever the output list held.
C26_PhasesInOrder ==
  [][/\ (ex.pc # "expire" /\ ex'.pc = "expire")
          => ex.pc \in {"loop", "softDelete", "remove"} /\ ~ex.expired
     /\ (ex.pc # "notify" /\ ex'.pc = "notify")
          => ex.pc \in {"expire", "expireWrite"} /\ ex'.expired
     /\ (ex.pc # "idle" /\ ex'.pc = "idle" /\ ex'.ended = "returned"
           /\ ex'.gotOutput)
          => ex.pc = "notify" /\ ex.expired
    ]_vars

\* C27: after a consolidation the survivor's consolidatedFromIds is the
\* union of the sources' ids and of the ids recorded in the sources' own
\* consolidatedFromIds, minus the survivor's id.
C27_ConsolidatedFromUnion ==
  [][(ex.pc = "loop" /\ ex'.pc = "softDelete")
       => LET S == Range(ex'.sourceIds)
              k == ex'.keepId
          IN /\ k \in S
             /\ memories'[k].consolidatedFromIds =
                  (S \cup UNION {memories[i].consolidatedFromIds : i \in S}) \ {k}
    ]_vars

\* C28: the completion event published by createResponse carries the final
\* text and, for every cited memory id, its (id, content) pair together with
\* an indication of whether that memory is soft-deleted at publication time.
C28_CompletionCarriesDeleted ==
  [][(cr.pc = "complete" /\ cr'.pc = "returned")
       => /\ cr'.completeEvent.status = "sent"
          /\ cr'.completeEvent.text = cr.responseText
          /\ \A i \in cr.referencedMemoryIds :
               /\ i \in Known(memories)
               /\ \E e \in cr'.completeEvent.memoriesUsed :
                    /\ e.id = i
                    /\ e.content = memories[i].content
                    /\ "deleted" \in DOMAIN e
                    /\ e.deleted = (memories[i].deletedAt # NULL)
    ]_vars

\* C29: when the input of a wrapped capability fails its contract, the call
\* fails with an error that lists every violated field, no invocation row
\* of it is persisted, no started or completed event of it is emitted, and
\* the underlying execute function is not called.
C29_InvalidInputFailsFirst ==
  \A i \in Invocations :
    inv[i].issues # {} =>
      /\ inv[i].pc = "failed"
      /\ inv[i].error.message = "Invalid input"
      /\ inv[i].error.fields = inv[i].issues
      /\ inv[i].row = 0
      /\ ~inv[i].began /\ ~inv[i].returned /\ ~inv[i].wrote
      /\ \A r \in DOMAIN toolRows :
           toolRows[r].createdBy # i /\ toolRows[r].completedBy # i
      /\ \A e \in DOMAIN toolEvents : toolEvents[e].by # i

\* An invocation failed on both fields of its input while another one of
\* the same turn went through to its completed event.
C29_Witness ==
  \E i, j \in Invocations :
    /\ inv[i].issues = InputFields
    /\ inv[i].pc = "failed"
    /\ inv[j].pc = "done"
    /\ Len(toolRows) = 1 /\ Len(toolEvents) = 2

CallsOf(call) == {k \in DOMAIN cr.log : cr.log[k] = call}
AllBefore(a, b) == \A x \in CallsOf(a), y \in CallsOf(b) : x < y

\* C30: in a createResponse that returned, all text deltas were published,
\* then the citations were recorded for the cited ids, then the assistant
\* turn was persisted, then the completion event was published; no text
\* delta is published after the completion event.
C30_EventOrder ==
  /\ cr.pc = "returned" =>
       /\ AllBefore("publishStreamText", "recordMemoryAccess")
       /\ AllBefore("publishStreamText", "createMessage")
       /\ AllBefore("recordMemoryAccess", "createMessage")
       /\ AllBefore("createMessage", "publishStreamComplete")
       /\ cr.referencedMemoryIds # {} =>
            /\ Cardinality(CallsOf("recordMemoryAccess")) = 1
            /\ cr.recorded.ids = cr.referencedMemoryIds
       /\ Cardinality(CallsOf("createMessage")) = 1
       /\ cr.message.created
       /\ Cardinality(CallsOf("publishStreamComplete")) = 1
  /\ cr.completeEvent.status = "sent" =>
       cr.log[Len(cr.log)] = "publishStreamComplete"

\* C31: the throttled publisher never initiates two stream:text publishes
\* less than 50 ms apart, whatever the timing of the push calls; the
\* publish performed by flush() is exempt.
C31_ThrottledInterval ==
  \A i, j \in DOMAIN tp.sent :
    (i < j /\ tp.sent[i].by = "doPublish" /\ tp.sent[j].by = "doPublish")
      => tp.sent[j].at - tp.sent[i].at >= PUBLISH_INTERVAL_MS

\* Two throttled publishes exactly one interval apart, and a flush publish
\* closer than that to a throttled one.
C31_Witness ==
  /\ \E i, j \in DOMAIN tp.sent :
       /\ i < j /\ tp.sent[i].by = "doPublish" /\ tp.sent[j].by = "doPublish"
       /\ tp.sent[j].at - tp.sent[i].at = PUBLISH_INTERVAL_MS
  /\ \E i, j \in DOMAIN tp.sent :
       /\ i < j /\ tp.sent[i].by = "doPublish" /\ tp.sent[j].by = "flush"
       /\ tp.sent[j].at - tp.sent[i].at < PUBLISH_INTERVAL_MS

\* C32: every createResponse invocation that ends has exactly one terminal
\* outcome on the channel: one completion event followed by a normal return,
\* or an attempted error event followed by a raise; a completion event and
\* an error event are never both published for one invocation, and the text
\* deltas already published are not retracted.
C32_OneTerminalOutcome ==
  /\ [](/\ cr.pc = "returned" =>
             /\ cr.completeEvent.status = "sent"
             /\ Cardinality(CallsOf("publishStreamComplete")) = 1
             /\ cr.errorEvent.status = "none"
             /\ cr.thrown = "none" /\ cr.raised = "none"
        /\ cr.pc = "threw" =>
             /\ cr.errorEvent.status \in {"sent", "failed"}
             /\ cr.completeEvent.status = "none"
             /\ CallsOf("publishStreamComplete") = {}
             /\ cr.raised # "none"
        /\ ~(cr.completeEvent.status = "sent" /\ cr.errorEvent.status = "sent")
        /\ cr.pc \notin {"returned", "threw", "catch"} =>
             /\ cr.completeEvent.status = "none"
             /\ cr.errorEvent.status = "none")
  /\ [][/\ IsPrefix(cr.log, cr'.log)
        /\ cr.pc \in {"returned", "threw"} => cr' = cr]_vars

\* An invocation raised after it had published text deltas: the error
\* event went out and the deltas are still in the log of what was sent.
C32_Witness ==
  /\ cr.pc = "threw"
  /\ cr.errorEvent.status = "sent"
  /\ CallsOf("publishStreamText") # {}
  /\ cr.thrown = "createMessage failed"

\* C33: every job passed to queueMemoryExtraction is eventually executed,
\* provided each extraction eventually returns or throws: a job enqueued
\* while a job is running is picked up by the active drain, and the system
\* never comes to rest with a non-empty queue and the drain flag clear.
C33_EveryJobRuns ==
  /\ \A j \in JobIds :
       (outcome[j] = "queued") ~> (outcome[j] \in {"returned", "threw"})
  /\ [](~processing => queue = <<>>)
  /\ [][\A j \in JobIds :
          (outcome[j] = "queued" /\ outcome'[j] = "running") =>
             \E d \in JobIds :
               /\ drain[d].pc = "settled" /\ drain[d].sawFlag = FALSE
               /\ processing /\ processing'
               /\ drain'[d].pc = "running" /\ drain'[d].job = j]_vars

\* A job that was enqueued while another was running has been run to its
\* end by the drain that was active then.
C33_Witness ==
  \E d \in JobIds :
    /\ drain[d].pc = "settled"
    /\ drain[d].job # d
    /\ outcome[drain[d].job] \in {"returned", "threw"}
    /\ queue # <<>>

RECURSIVE StoredCount(_)
StoredCount(S) ==
  IF S = {} THEN 0
  ELSE LET i == CHOOSE x \in S : TRUE
       IN memories[i].accessCount + StoredCount(S \ {i})

\* C34: no citation is lost when the loop and the worker interleave: the
\* accessCount a consolidation writes on the survivor includes every
\* increment recordMemoryAccess has made on a source since the job loaded
\* its snapshot, so it is no less than the sum of the sources' stored counts.
C34_NoCitationLost ==
  [][(ex.pc = "loop" /\ ex'.pc = "softDelete")
       => memories'[ex'.keepId].accessCount >= StoredCount(Range(ex'.sourceIds))
    ]_vars

\* C35: when several invocations of one capability run concurrently under
\* one correlation id, the row marked complete by an invocation is the row
\* that invocation created, and the row of an invocation whose execute
\* threw is never marked complete.
C35_OwnRowCompleted ==
  /\ \A r \in DOMAIN toolRows :
       toolRows[r].status = "complete" =>
         toolRows[r].completedBy = toolRows[r].createdBy
  /\ \A i \in Invocations :
       (inv[i].pc = "failed" /\ inv[i].began /\ ~inv[i].returned) =>
         /\ inv[i].row \in DOMAIN toolRows
         /\ toolRows[inv[i].row].createdBy = i
         /\ toolRows[inv[i].row].status = "running"

\* C36: soft-deletion is permanent: under any sequence and interleaving of
\* citations, reconciliation updates and consolidations, expiration and
\* user deletion, a memory whose deletion marker is set never becomes
\* active again, and no memory record is ever removed from the store.
C36_DeletionPermanent ==
  [][/\ Known(memories) \subseteq Known(memories')
     /\ \A i \in Known(memories) :
          /\ memories[i].deletedAt # NULL => memories'[i].deletedAt # NULL
          /\ memories'[i].userId = memories[i].userId
          /\ memories'[i].createdAt = memories[i].createdAt]_vars

\* A soft-deleted memory that a consolidation has since written to, as its
\* kept memory, from a snapshot in which it was still active.
C36_Witness ==
  \E i \in Known(memories) :
    /\ memories[i].deletedAt # NULL
    /\ memories[i].consolidatedFromIds # {}
    /\ i \in ex.existing
    /\ \E j \in memories[i].consolidatedFromIds :
         j \in Known(memories) /\ memories[j].deletedAt = NULL

RECURSIVE Payloads_Sent(_)
Payloads_Sent(sent) ==
  IF sent = <<>> THEN <<>>
  ELSE Payloads_Sent(SubSeq(sent, 1, Len(sent) - 1)) \o sent[Len(sent)].text

AllAccepted == \A k \in DOMAIN tp.sent : tp.sent[k].ok

\* C37: when the transport accepts every publish, the payloads of the
\* publishes, in the order of their initiation, always concatenate to a
\* prefix of the concatenation of the pushed texts, and to exactly the
\* pushed text once a flush issued after the last push has resolved.
C37_NothingLost ==
  AllAccepted =>
    /\ IsPrefix(Payloads_Sent(tp.sent), tp.pushed)
    /\ Payloads_Sent(tp.sent) \o tp.buffer = tp.pushed
    /\ tp.flushedAt = tp.pushes => Payloads_Sent(tp.sent) = tp.pushed

\* Three texts went out in three publishes, by a direct publish, by the
\* timer and by a flush issued after the last push, which has resolved.
C37_Witness ==
  /\ AllAccepted
  /\ tp.pushes = MaxPushes /\ tp.flushedAt = tp.pushes
  /\ Len(tp.pushed) = MaxPushes
  /\ Len(tp.sent) >= 3
  /\ tp.sent[Len(tp.sent)].by = "flush"
  /\ Payloads_Sent(tp.sent) = tp.pushed
====
